---- MODULE Spec2Model ----
(***************************************************************************)
(* A model of the mcp.desktop request broker (native.ts) and of the result *)
(* cache of the worker (the plugin's index file).                          *)
(*                                                                         *)
(* Spec          : the broker: HTTP requests, the priority queue, the      *)
(*                 pending map, the per-request timeouts, session resets,  *)
(*                 and the worker taking requests and posting responses.   *)
(* LiveSpec      : Spec with the fairness of the timers and of the clock.  *)
(* SpecCache     : executeToolCall over the result cache, from an empty    *)
(*                 cache.                                                  *)
(* SpecCacheFull : the same, from a cache one entry short of its capacity. *)
(* SpecCacheMutation : a mutating call between two identical reads.        *)
(* SpecResources : traces, intercepts and module watches, with the events  *)
(*                 they record and the plugin's stop.                      *)
(* SpecRegistry  : the same registries under the tool calls alone.         *)
(* SpecGrace     : the broker's grace window after a reload.               *)
(* SpecWindow    : the grace window over requests already in the broker.   *)
(* SpecReload    : reloadDiscord, the page reload and the next start().    *)
(* SpecTransport : the request handler on what is not a request.           *)
(* SpecRouting   : the worker's method routing.                            *)
(* SpecHandlers  : tool handlers that return, throw, reject or time out.   *)
(* SpecSocket    : the server's socket timeout under a long call.          *)
(* SpecBind      : startServer when the port is, or is not, free.          *)
(* SpecAdaptive  : the worker's adaptive timeouts against the broker's.    *)
(* SpecLimits    : the duration and maxCaptures arguments of the starts.   *)
(* SpecWrap      : Spec with the id counter about to wrap at 31 bits.      *)
(***************************************************************************)
EXTENDS Integers, Sequences, FiniteSets, TLC

VARIABLES
    now,              \* Date.now(), in ms
    server,           \* native.ts `server !== null`
    bound,            \* the http.Server of `server` listens on HOST:PORT
    requestId,        \* native.ts `requestId`
    reloadWaitUntil,  \* native.ts `reloadWaitUntil`: 0, or the end of the grace window after a reload
    requestQueue,     \* native.ts `requestQueue`: Seq of QueuedRequest
    pendingRequests,  \* native.ts `pendingRequests`: broker id -> resolve (the connection it belongs to)
    timeouts,         \* native.ts `timeouts`: broker id -> timer handle (the connection that armed it)
    armed,            \* the timers Node still holds: set, not yet fired, not cleared
    stats,            \* native.ts `stats`
    conn,             \* the HTTP connections: one run of the request handler each
    inflight,         \* the worker: requests taken with getNextRequest, response not yet posted
    toolCache,        \* index `toolCache`: the Map's entries in insertion order
    running,          \* executeToolCall: the handler invocations that have not returned yet
    nCalls,           \* the number of executeToolCall calls so far
    out,              \* what the last executeToolCall that returned has returned
    probe,            \* the tool call under test
    sessionStats,     \* index `sessionStats`: requests, toolCalls, errors
    traces,           \* utils `traceState`: the ActiveTrace objects made so far, by id
    interceptor,      \* utils `traceState.interceptor !== null`
    dispatcherInterceptors, \* how many entries of the dispatcher's `_interceptors` are trace interceptors
    intercepts,       \* utils `interceptState`: the FunctionIntercept objects made so far, by id
    exportFn,         \* what the intercepted export holds: 0 the function, k the wrapper of intercept k
    frozen,           \* whether the export can no longer be redefined
    stack,            \* the calls of the export that have not returned yet
    watches,          \* utils `moduleWatchState`: the ModuleWatch objects made so far, by id
    polling,          \* index `polling`: the plugin is started
    ret               \* what the last trace, intercept or module tool call, stop, or call of the export, returned

brokerVars == <<server, bound, requestId, reloadWaitUntil, requestQueue, pendingRequests, timeouts, armed, stats, conn>>
workerVars == <<inflight>>
cacheVars == <<toolCache, running, nCalls, out, probe, sessionStats>>
resVars == <<traces, interceptor, dispatcherInterceptors, intercepts, exportFn, frozen, stack, watches, polling, ret>>
vars == <<now, server, bound, requestId, reloadWaitUntil, requestQueue, pendingRequests, timeouts, armed, stats, conn, inflight,
          toolCache, running, nCalls, out, probe, sessionStats,
          traces, interceptor, dispatcherInterceptors, intercepts, exportFn, frozen, stack, watches, polling, ret>>

----------------------------------------------------------------------------
(* Bounds of the model *)

MaxRequests == 2
\* No request is accepted after MaxTime; the clock then only runs on to the
\* deadlines of the timers still armed.
MaxTime == 30000
\* executeToolCall is called at most MaxCalls times.
MaxCalls == 3
\* The entries SpecCacheFull starts with.
Prefill == 299

(* Program constants *)

REQUEST_TIMEOUT == 30000
BRUTEFORCE_TIMEOUT == 600000
ID_MASK == 2147483647
INTERNAL_ERROR == -32603
METHOD_NOT_FOUND == -32601
INVALID_PARAMS == -32602
DEFAULT_PRIORITY == 10
DEFAULT_CACHE_TTL == 10000
MAX_CACHE_ENTRIES == 300

\* A JSON-RPC id that is null (sendError / clearPendingRequests) or absent
\* (a notification); client ids are positive.
NULL_ID == 0

----------------------------------------------------------------------------
(* Requests and responses *)

\* The tools of TOOL_HANDLERS.
TOOL_NAMES ==
    {"module", "store", "intl", "flux", "patch", "react", "discord", "plugin",
     "search", "testPatch", "trace", "intercept", "evaluateCode", "reloadDiscord"}

\* The request bodies the model posts: one per priority class, the
\* long-running call, a notification (answered with null) and a method the
\* worker answers with an error.
Requests ==
    { [id |-> 1, method |-> "tools/call", name |-> "store", action |-> "list"],
      [id |-> 2, method |-> "tools/call", name |-> "intl", action |-> "bruteforce"],
      [id |-> 4, method |-> "tools/list", name |-> "", action |-> ""],
      [id |-> NULL_ID, method |-> "notifications/initialized", name |-> "", action |-> ""] }

\* MCPResponse | null.  kind "none" is the null the worker posts for a
\* notification; "result" carries a result, "error" an error object.
Result(id, result) == [kind |-> "result", id |-> id, code |-> 0, message |-> "", result |-> result]
Error(id, code, message) == [kind |-> "error", id |-> id, code |-> code, message |-> message, result |-> ""]
NoResponse == [kind |-> "none", id |-> NULL_ID, code |-> 0, message |-> "", result |-> ""]

\* The two notification cases of handleMCPRequest's switch.
IsNotification(method) ==
    method \in {"notifications/initialized", "notifications/cancelled"}

\* request.method.startsWith("notifications/"), over the methods the model
\* posts.
StartsWithNotifications(method) ==
    method \in {"notifications/initialized", "notifications/cancelled", "notifications/progress",
                "notifications/roots/list_changed"}

\* handleMCPRequest whose default case answers every method it does not
\* know with -32601.
handleMCPRequest_DefaultAlwaysError(request) ==
    CASE request.method = "initialize" -> Result(request.id, "{protocolVersion, capabilities, serverInfo}")
      [] request.method = "ping" -> Result(request.id, "{}")
      [] request.method = "tools/list" -> Result(request.id, "{tools: TOOLS}")
      [] request.method = "resources/list" -> Result(request.id, "{resources: []}")
      [] request.method = "prompts/list" -> Result(request.id, "{prompts: []}")
      [] IsNotification(request.method) -> NoResponse
      [] request.method = "tools/call" ->
            IF request.name = "" THEN Error(request.id, INVALID_PARAMS, "Missing tool name")
            ELSE IF request.name \notin TOOL_NAMES THEN Error(request.id, INVALID_PARAMS, "Unknown tool")
            ELSE Result(request.id, "toolResult")
      [] OTHER -> Error(request.id, METHOD_NOT_FOUND, "Method not found")

\* handleMCPRequest: the response the worker posts for a request whose tool
\* handler, if it has one, returns.
handleMCPRequest(request) ==
    CASE request.method = "initialize" -> Result(request.id, "{protocolVersion, capabilities, serverInfo}")
      [] request.method = "ping" -> Result(request.id, "{}")
      [] request.method = "tools/list" -> Result(request.id, "{tools: TOOLS}")
      [] request.method = "resources/list" -> Result(request.id, "{resources: []}")
      [] request.method = "prompts/list" -> Result(request.id, "{prompts: []}")
      [] IsNotification(request.method) -> NoResponse
      [] request.method = "tools/call" ->
            IF request.name = "" THEN Error(request.id, INVALID_PARAMS, "Missing tool name")
            ELSE IF request.name \notin TOOL_NAMES THEN Error(request.id, INVALID_PARAMS, "Unknown tool")
            ELSE Result(request.id, "toolResult")
      [] OTHER -> IF StartsWithNotifications(request.method) THEN NoResponse
                  ELSE Error(request.id, METHOD_NOT_FOUND, "Method not found")

\* sessionStats before any request.
NoSession == [requests |-> 0, toolCalls |-> 0, errors |-> 0]

\* What handleMCPRequest leaves in sessionStats for such a request.
SessionStatsAfter(ss, request) ==
    [requests |-> ss.requests + 1,
     toolCalls |-> ss.toolCalls + (IF request.method = "tools/call" THEN 1 ELSE 0),
     errors |-> ss.errors +
        (CASE request.method = "tools/call" ->
                  IF request.name = "" \/ request.name \notin TOOL_NAMES THEN 1 ELSE 0
           [] request.method \in {"initialize", "ping", "tools/list", "resources/list", "prompts/list"} -> 0
           [] IsNotification(request.method) -> 0
           [] OTHER -> IF StartsWithNotifications(request.method) THEN 0 ELSE 1)]

getRequestTimeout(request) ==
    IF request.method = "tools/call" /\ request.name = "intl" /\ request.action = "bruteforce"
    THEN BRUTEFORCE_TIMEOUT
    ELSE REQUEST_TIMEOUT

PRIORITY_METHODS(method) ==
    CASE method = "tools/call" -> 1
      [] method = "initialize" -> 2
      [] method = "tools/list" -> 3
      [] OTHER -> DEFAULT_PRIORITY

\* An id that stays at 0x7FFFFFFF once it is reached, instead of wrapping.
NextRequestId_Saturating(r) == IF r = ID_MASK THEN ID_MASK ELSE r + 1

\* (requestId + 1) & 0x7FFFFFFF: requestId is always in 0..0x7FFFFFFF, so
\* the mask only acts on 0x7FFFFFFF + 1, which it turns into 0.
NextRequestId(r) == IF r = ID_MASK THEN 0 ELSE r + 1

----------------------------------------------------------------------------
(* Maps *)

MapSet(m, k, v) == [x \in DOMAIN m \cup {k} |-> IF x = k THEN v ELSE m[x]]
MapDelete(m, k) == [x \in DOMAIN m \ {k} |-> m[x]]
MapValues(m) == {m[x] : x \in DOMAIN m}
EmptyMap == [x \in {} |-> 0]

----------------------------------------------------------------------------
(* The queue *)

\* The scan of getNextRequest: the index of the first entry of lowest
\* priority number (i runs over 2..Len(q), minIdx starts at 1).
RECURSIVE ScanMin(_, _, _)
ScanMin(q, i, minIdx) ==
    IF i > Len(q) THEN minIdx
    ELSE IF q[i].priority < q[minIdx].priority
         THEN ScanMin(q, i + 1, i)
         ELSE ScanMin(q, i + 1, minIdx)

\* The scan with `<=` for `<`: the last entry of lowest priority number.
RECURSIVE ScanMinLast(_, _, _)
ScanMinLast(q, i, minIdx) ==
    IF i > Len(q) THEN minIdx
    ELSE IF q[i].priority <= q[minIdx].priority
         THEN ScanMinLast(q, i + 1, i)
         ELSE ScanMinLast(q, i + 1, minIdx)

MinIndex_LastOfEqual(q) == ScanMinLast(q, 2, 1)

MinIndex(q) == ScanMin(q, 2, 1)

Splice(q, i) == [k \in 1..(Len(q) - 1) |-> IF k < i THEN q[k] ELSE q[k + 1]]

----------------------------------------------------------------------------
(* The pending promise of a connection *)

\* resolve(v) of connection c.  The first call settles the promise: the
\* handler continues after its await, counts the reply in stats and
\* writes it, to a socket that is still open ("waiting" to "done") or to
\* one the server has destroyed meanwhile ("severed" to "closed").  A
\* promise ignores every later call; `resolves` counts them.
ResolveConn(cs, c, v) ==
    [cs EXCEPT ![c] =
        IF @.state = "waiting"
        THEN [@ EXCEPT !.state = "done", !.reply = v, !.resolves = @ + 1]
        ELSE IF @.state = "severed"
        THEN [@ EXCEPT !.state = "closed", !.reply = v, !.resolves = @ + 1]
        ELSE [@ EXCEPT !.resolves = @ + 1]]

ResolveStats(st, cs, c, v) ==
    IF cs[c].state \notin {"waiting", "severed"} \/ v.kind = "none" THEN st
    ELSE IF v.kind = "error" THEN [st EXCEPT !.errors = @ + 1]
    ELSE [st EXCEPT !.success = @ + 1]

\* Resolve every connection of cset with v.
RECURSIVE ResolveAllConn(_, _, _)
ResolveAllConn(cs, cset, v) ==
    IF cset = {} THEN cs
    ELSE LET c == CHOOSE x \in cset : TRUE
         IN ResolveAllConn(ResolveConn(cs, c, v), cset \ {c}, v)

RECURSIVE ResolveAllStats(_, _, _, _)
ResolveAllStats(st, cs, cset, v) ==
    IF cset = {} THEN st
    ELSE LET c == CHOOSE x \in cset : TRUE
         IN ResolveAllStats(ResolveStats(st, cs, c, v), ResolveConn(cs, c, v), cset \ {c}, v)

----------------------------------------------------------------------------
(* The result cache: keys and policy *)

\* A tool's arguments: the members of the JSON object in the order the
\* client wrote them (an object keeps its insertion order through
\* JSON.parse and the IPC clone); a value is a JSON string or number.
Str(text) == [type |-> "string", text |-> text]
Num(n) == [type |-> "number", text |-> ToString(n)]
Member(key, value) == [key |-> key, value |-> value]

\* JSON.stringify of a value, and of the members of an object from the i-th on.
JsonValue(v) == IF v.type = "string" THEN "\"" \o v.text \o "\"" ELSE v.text

RECURSIVE JsonMembers(_, _)
JsonMembers(args, i) ==
    IF i > Len(args) THEN ""
    ELSE (IF i > 1 THEN "," ELSE "") \o "\"" \o args[i].key \o "\":" \o JsonValue(args[i].value)
            \o JsonMembers(args, i + 1)

JsonStringify(args) == "{" \o JsonMembers(args, 1) \o "}"

getCacheKey(tool, args) == tool \o ":" \o JsonStringify(args)

NON_CACHEABLE_TOOLS == {"reloadDiscord", "evaluateCode"}

\* NON_CACHEABLE_ACTIONS[tool]; the empty set stands for no entry.
NON_CACHEABLE_ACTIONS(tool) ==
    CASE tool = "dom" -> {"modify"}
      [] tool = "flux" -> {"dispatch"}
      [] tool = "discord" -> {"api"}
      [] tool = "store" -> {"call", "state"}
      [] tool = "plugin" -> {"toggle", "enable", "disable", "setSetting"}
      [] tool = "module" -> {"loadLazy", "watch", "watchGet", "watchStop", "diff", "annotate", "extract"}
      [] tool = "trace" -> {"start", "get", "stop", "store"}
      [] tool = "intercept" -> {"set", "get", "stop"}
      [] OTHER -> {}

\* actions.has(args.action): args.action is a member of the set (a string).
HasAction(actions, args) ==
    \E i \in 1..Len(args) :
        args[i].key = "action" /\ args[i].value.type = "string" /\ args[i].value.text \in actions

\* An isCacheable that looks at the tool and not at the action.
isCacheable_ActionsIgnored(tool, args) == tool \notin NON_CACHEABLE_TOOLS

isCacheable(tool, args) ==
    IF tool \in NON_CACHEABLE_TOOLS THEN FALSE
    ELSE ~HasAction(NON_CACHEABLE_ACTIONS(tool), args)

\* TOOL_CACHE_TTLS[tool] ?? DEFAULT_CACHE_TTL
TOOL_CACHE_TTLS(tool) ==
    CASE tool = "store" -> 120000
      [] tool = "module" -> 30000
      [] tool = "search" -> 30000
      [] tool = "intl" -> 60000
      [] tool = "flux" -> 60000
      [] tool = "plugin" -> 30000
      [] OTHER -> DEFAULT_CACHE_TTL

----------------------------------------------------------------------------
(* The result cache: the Map *)

\* toolCache is the sequence of the Map's entries in iteration order; an
\* entry is the key with its CacheEntry {result, expiresAt}, and the tool
\* and arguments the key was made of.
KeyIndex(cache, key) ==
    IF \E i \in 1..Len(cache) : cache[i].key = key
    THEN CHOOSE i \in 1..Len(cache) : cache[i].key = key
    ELSE 0

CacheDelete(cache, key) ==
    IF KeyIndex(cache, key) = 0 THEN cache ELSE Splice(cache, KeyIndex(cache, key))

\* Map.set: a key already present keeps its place, a new key goes last.
CacheSet(cache, entry) ==
    IF KeyIndex(cache, entry.key) = 0 THEN Append(cache, entry)
    ELSE [cache EXCEPT ![KeyIndex(cache, entry.key)] = entry]

\* getCachedResult: a hit is a cacheable call whose entry is present and
\* not past its expiresAt.
CacheHit(tool, args) ==
    /\ isCacheable(tool, args)
    /\ KeyIndex(toolCache, getCacheKey(tool, args)) # 0
    /\ ~(now > toolCache[KeyIndex(toolCache, getCacheKey(tool, args))].expiresAt)

\* A getCachedResult whose hit starts the entry's time to live afresh.
AfterGetCachedResult_HitRenewsExpiry(tool, args) ==
    LET key == getCacheKey(tool, args)
        idx == KeyIndex(toolCache, key)
    IN IF ~isCacheable(tool, args) \/ idx = 0 THEN toolCache
       ELSE IF now > toolCache[idx].expiresAt THEN CacheDelete(toolCache, key)
       ELSE CacheSet(CacheDelete(toolCache, key),
                     [toolCache[idx] EXCEPT !.expiresAt = now + TOOL_CACHE_TTLS(tool)])

\* toolCache after getCachedResult(tool, args): an expired entry is
\* deleted, a hit is deleted and set again.
AfterGetCachedResult(tool, args) ==
    LET key == getCacheKey(tool, args)
        idx == KeyIndex(toolCache, key)
    IN IF ~isCacheable(tool, args) \/ idx = 0 THEN toolCache
       ELSE IF now > toolCache[idx].expiresAt THEN CacheDelete(toolCache, key)
       ELSE CacheSet(CacheDelete(toolCache, key), toolCache[idx])

\* A setCachedResult that evicts only above the capacity.
AfterSetCachedResult_EvictsAboveCapacity(tool, args, result) ==
    IF ~isCacheable(tool, args) THEN toolCache
    ELSE IF result.error THEN toolCache
    ELSE LET key == getCacheKey(tool, args)
             ttl == TOOL_CACHE_TTLS(tool)
             evicted == IF Len(toolCache) > MAX_CACHE_ENTRIES
                        THEN CacheDelete(toolCache, toolCache[1].key)
                        ELSE toolCache
         IN CacheSet(evicted, [key |-> key, tool |-> tool, args |-> args,
                               result |-> result, expiresAt |-> now + ttl])

\* A setCachedResult that stores a result with an `error` member too.
AfterSetCachedResult_ErrorsStored(tool, args, result) ==
    IF ~isCacheable(tool, args) THEN toolCache
    ELSE LET key == getCacheKey(tool, args)
             ttl == TOOL_CACHE_TTLS(tool)
             evicted == IF Len(toolCache) >= MAX_CACHE_ENTRIES
                        THEN CacheDelete(toolCache, toolCache[1].key)
                        ELSE toolCache
         IN CacheSet(evicted, [key |-> key, tool |-> tool, args |-> args,
                               result |-> result, expiresAt |-> now + ttl])

\* toolCache after setCachedResult(tool, args, result).
AfterSetCachedResult(tool, args, result) ==
    IF ~isCacheable(tool, args) THEN toolCache
    ELSE IF result.error THEN toolCache
    ELSE LET key == getCacheKey(tool, args)
             ttl == TOOL_CACHE_TTLS(tool)
             evicted == IF Len(toolCache) >= MAX_CACHE_ENTRIES
                        THEN CacheDelete(toolCache, toolCache[1].key)
                        ELSE toolCache
         IN CacheSet(evicted, [key |-> key, tool |-> tool, args |-> args,
                               result |-> result, expiresAt |-> now + ttl])

\* The calls of the model.  The call under test is any tool with a read
\* action or with an action its entry of the non-cacheable table lists,
\* react with `modify`, trace with a filter and no action, and one call
\* with two members.
ProbeActions(tool) ==
    {"list"} \cup NON_CACHEABLE_ACTIONS(tool) \cup (IF tool = "react" THEN {"modify"} ELSE {})

TwoMemberCall == [tool |-> "react", args |-> <<Member("action", Str("find")), Member("limit", Num(1))>>]

ProbeCalls ==
    UNION {{[tool |-> t, args |-> <<Member("action", Str(a))>>] : a \in ProbeActions(t)} : t \in TOOL_NAMES}
    \cup {[tool |-> "trace", args |-> <<Member("filter", Str("MESSAGE"))>>], TwoMemberCall}

\* The same call with its members written in the opposite order.
Reverse(args) == [i \in 1..Len(args) |-> args[Len(args) + 1 - i]]
Reordered(call) == [call EXCEPT !.args = Reverse(@)]

\* A call made beside the call under test: the search of the first filler.
BackgroundCall == [tool |-> "search", args |-> <<Member("pattern", Str("1"))>>]

CallsOf(call) == {call, Reordered(call), BackgroundCall}

NoReturn == [n |-> 0, tool |-> "", args |-> <<>>, cached |-> FALSE, isError |-> FALSE,
             result |-> [error |-> FALSE, val |-> 0]]

\* The entries of a cache filled by `count` search calls at time 0.
Filler(i) ==
    [key |-> getCacheKey("search", <<Member("pattern", Str(ToString(i)))>>), tool |-> "search",
     args |-> <<Member("pattern", Str(ToString(i)))>>, result |-> [error |-> FALSE, val |-> 0],
     expiresAt |-> TOOL_CACHE_TTLS("search")]

Prefilled(count) == [i \in 1..count |-> Filler(i)]

----------------------------------------------------------------------------
(* Init *)

\* No trace, intercept or module watch has been started.
NoAnswer == [tool |-> "", action |-> "", id |-> 0, answer |-> "none", ids |-> {}]

ResInit ==
    /\ traces = <<>>
    /\ interceptor = FALSE
    /\ dispatcherInterceptors = 0
    /\ intercepts = <<>>
    /\ exportFn = 0
    /\ frozen = FALSE
    /\ stack = <<>>
    /\ watches = <<>>
    /\ polling = TRUE
    /\ ret = NoAnswer

BrokerInit ==
    /\ now = 0
    /\ server = FALSE
    /\ bound = FALSE
    /\ requestId = 0
    /\ reloadWaitUntil = 0
    /\ requestQueue = <<>>
    /\ pendingRequests = EmptyMap
    /\ timeouts = EmptyMap
    /\ armed = {}
    /\ stats = [requests |-> 0, success |-> 0, errors |-> 0, timeouts |-> 0]
    /\ conn = <<>>
    /\ inflight = {}

Init ==
    /\ BrokerInit
    /\ ResInit
    /\ toolCache = <<>>
    /\ running = {}
    /\ nCalls = 0
    /\ out = NoReturn
    /\ probe = [tool |-> "store", args |-> <<>>]
    /\ sessionStats = NoSession

----------------------------------------------------------------------------
(* Broker actions *)

\* clearPendingRequests(errorMessage), as the new values of the state it
\* writes.
ClearedConn(errorMessage) ==
    ResolveAllConn(conn, MapValues(pendingRequests), Error(NULL_ID, INTERNAL_ERROR, errorMessage))
ClearedStats(errorMessage) ==
    ResolveAllStats(stats, conn, MapValues(pendingRequests), Error(NULL_ID, INTERNAL_ERROR, errorMessage))

\* clearPendingRequests without its clearTimeout loop.
clearPendingRequests_TimersLeftArmed(errorMessage) ==
    /\ conn' = ClearedConn(errorMessage)
    /\ stats' = ClearedStats(errorMessage)
    /\ pendingRequests' = EmptyMap
    /\ armed' = armed
    /\ timeouts' = EmptyMap
    /\ requestQueue' = <<>>

\* clearPendingRequests that drops the pending slots without resolving them.
clearPendingRequests_NotResolved(errorMessage) ==
    /\ conn' = conn
    /\ stats' = stats
    /\ pendingRequests' = EmptyMap
    /\ armed' = armed \ MapValues(timeouts)
    /\ timeouts' = EmptyMap
    /\ requestQueue' = <<>>

clearPendingRequests(errorMessage) ==
    /\ conn' = ClearedConn(errorMessage)
    /\ stats' = ClearedStats(errorMessage)
    /\ pendingRequests' = EmptyMap
    /\ armed' = armed \ MapValues(timeouts)
    /\ timeouts' = EmptyMap
    /\ requestQueue' = <<>>

\* startServer() while nothing else holds the port: `if (server) return`
\* leaves an existing server object as it is; a new one binds.
StartServer ==
    /\ clearPendingRequests("Session reset")
    /\ server' = TRUE
    /\ bound' = IF server THEN bound ELSE TRUE
    /\ UNCHANGED <<now, requestId, inflight, reloadWaitUntil, cacheVars, resVars>>

StopServer ==
    /\ clearPendingRequests("Server stopped")
    /\ server' = FALSE
    /\ bound' = FALSE
    /\ UNCHANGED <<now, requestId, inflight, reloadWaitUntil, cacheVars, resVars>>

\* The request handler up to its first await: a POST arrives at the
\* listening server and its body is being read.
HttpArrive ==
    /\ server /\ bound
    /\ Len(conn) < MaxRequests
    /\ stats' = [stats EXCEPT !.requests = @ + 1]
    /\ conn' = Append(conn, [state |-> "reading", request |-> CHOOSE r \in Requests : TRUE,
                             id |-> 0, wakeAt |-> 0, timerSetAt |-> 0, reply |-> NoResponse, resolves |-> 0])
    /\ UNCHANGED <<now, server, bound, requestId, requestQueue, pendingRequests, timeouts, armed, inflight, reloadWaitUntil, cacheVars, resVars>>

\* The broker id, the pending slot, the timeout and the queue entry of the
\* request of connection c.
Enqueue(c, request) ==
    LET id == NextRequestId(requestId)
    IN /\ requestId' = id
       /\ pendingRequests' = MapSet(pendingRequests, id, c)
       /\ timeouts' = MapSet(timeouts, id, c)
       /\ armed' = armed \cup {c}
       /\ requestQueue' = Append(requestQueue,
             [id |-> id, request |-> request, priority |-> PRIORITY_METHODS(request.method)])
       /\ conn' = [conn EXCEPT ![c] = [@ EXCEPT !.state = "waiting", !.request = request,
                                          !.id = id, !.timerSetAt = now]]

\* The handler after the body is read and parsed as a JSON-RPC 2.0
\* request.  While reloadWaitUntil lies ahead it sleeps for the time that
\* is left of it; otherwise it sets reloadWaitUntil to 0 and enqueues.
HttpAccept(c, request) ==
    /\ c \in 1..Len(conn)
    /\ conn[c].state = "reading"
    \* connections still reading are alike: the body of the oldest ends first
    /\ \A b \in 1..(c - 1) : conn[b].state # "reading"
    /\ now <= MaxTime
    /\ IF reloadWaitUntil > 0 /\ reloadWaitUntil - now > 0
       THEN /\ conn' = [conn EXCEPT ![c] = [@ EXCEPT !.state = "sleeping", !.request = request,
                                               !.wakeAt = reloadWaitUntil]]
            /\ UNCHANGED <<requestId, reloadWaitUntil, pendingRequests, timeouts, armed, requestQueue>>
       ELSE /\ reloadWaitUntil' = 0
            /\ Enqueue(c, request)
    /\ UNCHANGED <<now, server, bound, stats, inflight, cacheVars, resVars>>

\* The handler after `await sleep(waitTime)`: reloadWaitUntil is set to 0,
\* whatever it holds by now, and the request is enqueued.
GraceWake(c) ==
    /\ c \in 1..Len(conn)
    /\ conn[c].state = "sleeping"
    /\ now >= conn[c].wakeAt
    /\ reloadWaitUntil' = 0
    /\ Enqueue(c, conn[c].request)
    /\ UNCHANGED <<now, server, bound, stats, inflight, cacheVars, resVars>>

RELOAD_WAIT_MS == 3000

notifyReloadTriggered ==
    /\ reloadWaitUntil' = now + RELOAD_WAIT_MS + 1000
    /\ UNCHANGED <<now, server, bound, requestId, requestQueue, pendingRequests, timeouts, armed, stats, conn,
                   inflight, cacheVars, resVars>>

notifyRendererReady ==
    /\ reloadWaitUntil' = IF reloadWaitUntil > 0 THEN now + RELOAD_WAIT_MS ELSE reloadWaitUntil
    /\ UNCHANGED <<now, server, bound, requestId, requestQueue, pendingRequests, timeouts, armed, stats, conn,
                   inflight, cacheVars, resVars>>

\* setTimeout(callback, getRequestTimeout(request)): the time from which
\* the callback of connection c may run.
Deadline(c) == conn[c].timerSetAt + getRequestTimeout(conn[c].request)

\* The callback without `timeouts.delete(id)`.
TimerFire_TimeoutEntryKept(c) ==
    /\ c \in armed
    /\ now >= Deadline(c)
    /\ armed' = armed \ {c}
    /\ IF conn[c].id \in DOMAIN pendingRequests
       THEN LET v == Error(conn[c].request.id, INTERNAL_ERROR, "Timeout")
                st == [stats EXCEPT !.timeouts = @ + 1]
            IN /\ pendingRequests' = MapDelete(pendingRequests, conn[c].id)
               /\ timeouts' = timeouts
               /\ conn' = ResolveConn(conn, c, v)
               /\ stats' = ResolveStats(st, conn, c, v)
       ELSE UNCHANGED <<pendingRequests, timeouts, conn, stats>>
    /\ UNCHANGED <<now, server, bound, requestId, requestQueue, inflight, reloadWaitUntil, cacheVars, resVars>>

\* A callback that also takes the request out of the queue.
TimerFire_QueueEntryDropped(c) ==
    /\ c \in armed
    /\ now >= Deadline(c)
    /\ armed' = armed \ {c}
    /\ IF conn[c].id \in DOMAIN pendingRequests
       THEN LET v == Error(conn[c].request.id, INTERNAL_ERROR, "Timeout")
                st == [stats EXCEPT !.timeouts = @ + 1]
            IN /\ pendingRequests' = MapDelete(pendingRequests, conn[c].id)
               /\ timeouts' = MapDelete(timeouts, conn[c].id)
               /\ conn' = ResolveConn(conn, c, v)
               /\ stats' = ResolveStats(st, conn, c, v)
               /\ requestQueue' = SelectSeq(requestQueue, LAMBDA q : q.id # conn[c].id)
       ELSE UNCHANGED <<pendingRequests, timeouts, conn, stats, requestQueue>>
    /\ UNCHANGED <<now, server, bound, requestId, inflight, reloadWaitUntil, cacheVars, resVars>>

\* The setTimeout callback of connection c.
TimerFire(c) ==
    /\ c \in armed
    /\ now >= Deadline(c)
    /\ armed' = armed \ {c}
    /\ IF conn[c].id \in DOMAIN pendingRequests
       THEN LET v == Error(conn[c].request.id, INTERNAL_ERROR, "Timeout")
                st == [stats EXCEPT !.timeouts = @ + 1]
            IN /\ pendingRequests' = MapDelete(pendingRequests, conn[c].id)
               /\ timeouts' = MapDelete(timeouts, conn[c].id)
               /\ conn' = ResolveConn(conn, c, v)
               /\ stats' = ResolveStats(st, conn, c, v)
       ELSE UNCHANGED <<pendingRequests, timeouts, conn, stats>>
    /\ UNCHANGED <<now, server, bound, requestId, requestQueue, inflight, reloadWaitUntil, cacheVars, resVars>>

\* sendResponse without `pendingRequests.delete(id)`.
sendResponse_SlotKept(id, response) ==
    IF id \in DOMAIN pendingRequests
    THEN /\ pendingRequests' = pendingRequests
         /\ IF id \in DOMAIN timeouts
            THEN /\ armed' = armed \ {timeouts[id]}
                 /\ timeouts' = MapDelete(timeouts, id)
            ELSE UNCHANGED <<armed, timeouts>>
         /\ conn' = ResolveConn(conn, pendingRequests[id], response)
         /\ stats' = ResolveStats(stats, conn, pendingRequests[id], response)
    ELSE UNCHANGED <<pendingRequests, armed, timeouts, conn, stats>>

\* sendResponse without `timeouts.delete(id)`: the timer is cleared and its
\* entry stays in the map.
sendResponse_TimeoutEntryKept(id, response) ==
    IF id \in DOMAIN pendingRequests
    THEN /\ pendingRequests' = MapDelete(pendingRequests, id)
         /\ IF id \in DOMAIN timeouts
            THEN /\ armed' = armed \ {timeouts[id]}
                 /\ timeouts' = timeouts
            ELSE UNCHANGED <<armed, timeouts>>
         /\ conn' = ResolveConn(conn, pendingRequests[id], response)
         /\ stats' = ResolveStats(stats, conn, pendingRequests[id], response)
    ELSE UNCHANGED <<pendingRequests, armed, timeouts, conn, stats>>

\* sendResponse(_event, id, response), as the new values of the broker state.
sendResponse(id, response) ==
    IF id \in DOMAIN pendingRequests
    THEN /\ pendingRequests' = MapDelete(pendingRequests, id)
         /\ IF id \in DOMAIN timeouts
            THEN /\ armed' = armed \ {timeouts[id]}
                 /\ timeouts' = MapDelete(timeouts, id)
            ELSE UNCHANGED <<armed, timeouts>>
         /\ conn' = ResolveConn(conn, pendingRequests[id], response)
         /\ stats' = ResolveStats(stats, conn, pendingRequests[id], response)
    ELSE UNCHANGED <<pendingRequests, armed, timeouts, conn, stats>>

----------------------------------------------------------------------------
(* Worker actions *)

\* A getNextRequest that hands out nothing while reloadWaitUntil lies ahead.
GetNextRequest_HeldDuringGrace ==
    /\ requestQueue # <<>>
    /\ ~(reloadWaitUntil > now)
    /\ LET minIdx == IF Len(requestQueue) > 1 THEN MinIndex(requestQueue) ELSE 1
           item == requestQueue[minIdx]
       IN /\ requestQueue' = Splice(requestQueue, minIdx)
          /\ inflight' = inflight \cup {[id |-> item.id, request |-> item.request]}
    /\ UNCHANGED <<now, server, bound, requestId, pendingRequests, timeouts, armed, stats, conn, reloadWaitUntil, cacheVars, resVars>>

\* getNextRequest(), called by the worker's poll: null on an empty queue
\* (the broker is left as it is), else the entry the scan selects.
GetNextRequest ==
    /\ requestQueue # <<>>
    /\ LET minIdx == IF Len(requestQueue) > 1 THEN MinIndex(requestQueue) ELSE 1
           item == requestQueue[minIdx]
       IN /\ requestQueue' = Splice(requestQueue, minIdx)
          /\ inflight' = inflight \cup {[id |-> item.id, request |-> item.request]}
    /\ UNCHANGED <<now, server, bound, requestId, pendingRequests, timeouts, armed, stats, conn, reloadWaitUntil, cacheVars, resVars>>

\* handleMCPRequest(request).then(response => Native.sendResponse(id, response))
WorkerRespond(item) ==
    /\ item \in inflight
    /\ inflight' = inflight \ {item}
    /\ sendResponse(item.id, handleMCPRequest(item.request))
    /\ UNCHANGED <<now, server, bound, requestId, requestQueue, reloadWaitUntil, cacheVars, resVars>>

----------------------------------------------------------------------------
(* Time *)

\* The clock advances by one default timeout while requests may still
\* arrive, or runs on to the next deadline of an armed timer.
Deadlines == {Deadline(c) : c \in armed}

Tick ==
    /\ \/ now < MaxTime /\ now' = now + REQUEST_TIMEOUT
       \/ \E d \in Deadlines : d > now /\ now' = d /\ \A e \in Deadlines : e > now => d <= e
    /\ UNCHANGED <<server, bound, requestId, requestQueue, pendingRequests, timeouts, armed, stats, conn, inflight, reloadWaitUntil, cacheVars, resVars>>

----------------------------------------------------------------------------

Next ==
    \/ StartServer
    \/ StopServer
    \/ HttpArrive
    \/ \E c \in 1..MaxRequests, request \in Requests : HttpAccept(c, request)
    \/ \E c \in 1..MaxRequests : TimerFire(c)
    \/ GetNextRequest
    \/ \E item \in inflight : WorkerRespond(item)
    \/ Tick

Spec == Init /\ [][Next]_vars

\* Node runs the callback of a timer that is due, and the clock goes on.
LiveSpec ==
    /\ Init
    /\ [][Next]_vars
    /\ WF_vars(Tick)
    /\ \A c \in 1..MaxRequests : WF_vars(TimerFire(c))

----------------------------------------------------------------------------
(* executeToolCall *)

\* executeToolCall(name, args) up to the handler's first await, for a
\* tool of TOOL_HANDLERS: a hit returns the cached result tagged
\* `cached: true`; a miss invokes the handler.
ExecBegin(call) ==
    /\ nCalls < MaxCalls
    /\ nCalls' = nCalls + 1
    /\ toolCache' = AfterGetCachedResult(call.tool, call.args)
    /\ IF CacheHit(call.tool, call.args)
       THEN /\ out' = [n |-> nCalls + 1, tool |-> call.tool, args |-> call.args, cached |-> TRUE,
                       isError |-> FALSE,
                       result |-> toolCache[KeyIndex(toolCache, getCacheKey(call.tool, call.args))].result]
            /\ UNCHANGED running
       ELSE /\ running' = running \cup {[n |-> nCalls + 1, tool |-> call.tool, args |-> call.args]}
            /\ UNCHANGED out
    /\ UNCHANGED <<now, probe, sessionStats, brokerVars, workerVars, resVars>>

\* The handler of invocation r returns a result, returns a result with an
\* `error` member, or throws; executeToolCall stores and returns.
ExecEnd(r, outcome) ==
    /\ r \in running
    /\ running' = running \ {r}
    /\ IF outcome = "throw"
       THEN /\ UNCHANGED toolCache
            /\ out' = [n |-> r.n, tool |-> r.tool, args |-> r.args, cached |-> FALSE, isError |-> TRUE,
                       result |-> [error |-> TRUE, val |-> r.n]]
       ELSE LET result == [error |-> (outcome = "error"), val |-> r.n]
            IN /\ toolCache' = AfterSetCachedResult(r.tool, r.args, result)
               /\ out' = [n |-> r.n, tool |-> r.tool, args |-> r.args, cached |-> FALSE,
                          isError |-> FALSE, result |-> result]
    /\ UNCHANGED <<now, nCalls, probe, sessionStats, brokerVars, workerVars, resVars>>

\* The plugin's stop() when no trace, intercept or module watch is active
\* and the server is not listening, with the start() that follows it:
\* toolCache.clear().  Handlers still running go on.
PluginStop ==
    /\ toolCache' = <<>>
    /\ UNCHANGED <<now, running, nCalls, out, probe, sessionStats, brokerVars, workerVars, resVars>>

\* The clock runs on to the next instant at which a cached entry is at its
\* expiresAt, or just past it.
ExpiryTimes ==
    LET expiries == {toolCache[i].expiresAt : i \in 1..Len(toolCache)}
    IN {t \in expiries \cup {e + 1 : e \in expiries} : t > now}

CacheTick ==
    /\ LET times == ExpiryTimes
       IN \E t \in times :
            /\ \A u \in times : t <= u
            /\ now' = t
    /\ UNCHANGED <<cacheVars, brokerVars, workerVars, resVars>>

NextCache ==
    \/ \E call \in CallsOf(probe) : ExecBegin(call)
    \/ \E r \in running, outcome \in {"ok", "error", "throw"} : ExecEnd(r, outcome)
    \/ PluginStop
    \/ CacheTick

InitCache ==
    /\ BrokerInit
    /\ ResInit
    /\ toolCache = <<>>
    /\ running = {}
    /\ nCalls = 0
    /\ out = NoReturn
    /\ probe \in ProbeCalls
    /\ sessionStats = NoSession

InitCacheFull ==
    /\ BrokerInit
    /\ ResInit
    /\ toolCache = Prefilled(Prefill)
    /\ running = {}
    /\ nCalls = 0
    /\ out = NoReturn
    /\ probe \in {BackgroundCall, TwoMemberCall}
    /\ sessionStats = NoSession

SpecCache == InitCache /\ [][NextCache]_vars

\* From a full cache, up to the plugin's stop (which leaves the empty
\* cache SpecCache starts from), with a client that makes its calls one
\* after the other.
NextCacheFull ==
    \/ \E call \in CallsOf(probe) : running = {} /\ ExecBegin(call)
    \/ \E r \in running, outcome \in {"ok", "error", "throw"} : ExecEnd(r, outcome)
    \/ CacheTick

SpecCacheFull == InitCacheFull /\ [][NextCacheFull]_vars

----------------------------------------------------------------------------
(* Claims about the broker *)

Conns == 1..Len(conn)
QueueIds == {requestQueue[k].id : k \in 1..Len(requestQueue)}
TimeoutError(c) == Error(conn[c].request.id, INTERNAL_ERROR, "Timeout")
ResetMessages == {"Session reset", "Server stopped"}
IsResetError(v) == v.kind = "error" /\ v.id = NULL_ID /\ v.code = -32603 /\ v.message \in ResetMessages

\* C1: getNextRequest hands out, among the queued requests, the first one
\* (in arrival order) of the numerically lowest priority, where
\* tools/call=1, initialize=2, tools/list=3 and any other method=10; the
\* queue holds the requests in arrival order and loses only that entry.
C1_Dequeued == inflight' \ inflight
C1_DequeueStep ==
    C1_Dequeued # {} =>
        \E i \in 1..Len(requestQueue) :
            /\ C1_Dequeued = {[id |-> requestQueue[i].id, request |-> requestQueue[i].request]}
            /\ \A j \in 1..Len(requestQueue) : requestQueue[j].priority >= requestQueue[i].priority
            /\ \A j \in 1..(i - 1) : requestQueue[j].priority > requestQueue[i].priority
            /\ Len(requestQueue') = Len(requestQueue) - 1
            /\ \A k \in 1..Len(requestQueue') :
                    requestQueue'[k] = IF k < i THEN requestQueue[k] ELSE requestQueue[k + 1]
C1_EnqueueStep ==
    Len(requestQueue') > Len(requestQueue) =>
        /\ Len(requestQueue') = Len(requestQueue) + 1
        /\ SubSeq(requestQueue', 1, Len(requestQueue)) = requestQueue
C1_Priorities ==
    /\ PRIORITY_METHODS("initialize") = 2
    /\ \A k \in 1..Len(requestQueue) :
            requestQueue[k].priority =
                CASE requestQueue[k].request.method = "tools/call" -> 1
                  [] requestQueue[k].request.method = "initialize" -> 2
                  [] requestQueue[k].request.method = "tools/list" -> 3
                  [] OTHER -> 10
C1_PriorityThenFifo ==
    /\ []C1_Priorities
    /\ [][C1_DequeueStep /\ C1_EnqueueStep]_vars

\* C1 witness: a request is with the worker that overtook an older queued
\* request of a higher priority number.
C1_Witness ==
    \E item \in inflight : \E k \in 1..Len(requestQueue) :
        /\ requestQueue[k].id < item.id
        /\ requestQueue[k].priority = 3
        /\ item.request.method = "tools/call"

\* C2: the promise of an accepted request is resolved exactly once, by the
\* first of the worker's response, its timeout and a reset; its slot is
\* then gone, the reply the caller got never changes, and a response the
\* worker posts for an id without a slot changes nothing in the broker.
C2_Slots ==
    \A c \in Conns :
        /\ conn[c].resolves <= 1
        /\ conn[c].state = "done" <=> conn[c].resolves = 1
        /\ conn[c].state = "waiting" <=>
                (conn[c].id \in DOMAIN pendingRequests /\ pendingRequests[conn[c].id] = c)
C2_FirstResolution(c) ==
    \/ /\ \E item \in inflight \ inflight' : item.id = conn[c].id
       /\ conn'[c].reply = handleMCPRequest(conn[c].request)
    \/ /\ conn'[c].reply = TimeoutError(c)
       /\ c \in armed /\ c \notin armed'
    \/ /\ IsResetError(conn'[c].reply)
       /\ DOMAIN pendingRequests' = {}
C2_Step ==
    /\ \A c \in Conns :
            /\ conn[c].state = "done" => conn'[c] = conn[c]
            /\ (conn[c].state = "waiting" /\ conn'[c].state = "done") => C2_FirstResolution(c)
    /\ (\E item \in inflight \ inflight' : item.id \notin DOMAIN pendingRequests)
            => UNCHANGED brokerVars
C2_ResolvedExactlyOnce == []C2_Slots /\ [][C2_Step]_vars

\* C2 witness: the caller got the Timeout error and the worker has since
\* posted its late response for that id.  The request is neither queued
\* nor with the worker, and no reset emptied the queue after it was
\* enqueued, since a request enqueued before it is still waiting: the
\* worker took it, and answered after the timeout.
C2_Witness ==
    \E c \in Conns :
        /\ conn[c].state = "done"
        /\ conn[c].reply = TimeoutError(c)
        /\ conn[c].id \notin QueueIds
        /\ conn[c].id \notin {item.id : item \in inflight}
        /\ \E b \in Conns : conn[b].state = "waiting" /\ conn[b].id < conn[c].id

\* C3: a timeout runs no earlier than 30 s (600 s for tools/call intl
\* bruteforce) after the request was enqueued; it resolves the request with
\* error -32603 "Timeout" carrying the client's id, removes its entries from
\* the pending map and the timeout map and adds exactly one to
\* stats.timeouts, which nothing else changes.
C3_Allotted(c) ==
    IF conn[c].request.method = "tools/call" /\ conn[c].request.name = "intl"
           /\ conn[c].request.action = "bruteforce"
    THEN 600000 ELSE 30000
C3_TimedOut(c) == conn[c].state = "waiting" /\ c \in armed /\ c \notin armed' /\ conn'[c].state = "done"
                    /\ conn'[c].reply.message = "Timeout"
C3_Step ==
    /\ \A c \in Conns :
            C3_TimedOut(c) =>
                /\ now >= conn[c].timerSetAt + C3_Allotted(c)
                /\ conn'[c].reply = TimeoutError(c)
                /\ conn[c].id \notin DOMAIN pendingRequests'
                /\ conn[c].id \notin DOMAIN timeouts'
                /\ stats'.timeouts = stats.timeouts + 1
    /\ stats'.timeouts # stats.timeouts => \E c \in Conns : C3_TimedOut(c)
    /\ \A c \in Conns : (c \in armed /\ c \notin armed' /\ now < conn[c].timerSetAt + C3_Allotted(c))
            => conn'[c].reply.message # "Timeout"
C3_TimeoutCount ==
    stats.timeouts = Cardinality({c \in Conns : conn[c].state = "done" /\ conn[c].reply.message = "Timeout"})
C3_Timeout == []C3_TimeoutCount /\ [][C3_Step]_vars

\* C3 witness: a request has been answered with the Timeout error.
C3_Witness ==
    \E c \in Conns :
        /\ conn[c].state = "done"
        /\ conn[c].reply = TimeoutError(c)
        /\ stats.timeouts >= 1

\* C4: startServer and stopServer leave the pending map, the timeout map
\* and the queue empty and no timer armed; every request that was pending
\* is resolved with a -32603 error; with nothing pending and nothing
\* queued they change nothing but `server`.
C4_Step ==
    (StartServer \/ StopServer) =>
        /\ DOMAIN pendingRequests' = {}
        /\ DOMAIN timeouts' = {}
        /\ requestQueue' = <<>>
        /\ armed' = {}
        /\ \A c \in Conns :
                conn[c].state = "waiting" =>
                    /\ conn'[c].state = "done"
                    /\ conn'[c].reply.kind = "error"
                    /\ conn'[c].reply.code = -32603
                    /\ conn'[c].reply.id = NULL_ID
                    /\ conn'[c].reply.message = (IF server' THEN "Session reset" ELSE "Server stopped")
        /\ (DOMAIN pendingRequests = {} /\ requestQueue = <<>>) =>
                UNCHANGED <<requestId, requestQueue, pendingRequests, timeouts, armed, stats, conn>>
C4_NoSlotNoTimer == \A c \in armed : conn[c].state = "waiting"
C4_Reset == []C4_NoSlotNoTimer /\ [][C4_Step]_vars

\* C4 witness: a reset has resolved a pending request and left everything
\* empty.
C4_Witness ==
    /\ \E c \in Conns : conn[c].state = "done" /\ IsResetError(conn[c].reply)
    /\ DOMAIN pendingRequests = {}
    /\ DOMAIN timeouts = {}
    /\ requestQueue = <<>>
    /\ armed = {}

\* C5: every enqueued request owns one armed timeout while it waits, and
\* is eventually resolved, whatever the worker does: again and again no
\* accepted request is left waiting (a request leaves "waiting" only by
\* being resolved, and stays resolved).
C5_OwnsTimeout ==
    \A c \in Conns :
        conn[c].state = "waiting" =>
            /\ c \in armed
            /\ conn[c].id \in DOMAIN timeouts
            /\ timeouts[conn[c].id] = c
C5_EventuallyResolved ==
    /\ []C5_OwnsTimeout
    /\ []<>(\A c \in Conns : conn[c].state # "waiting")

\* C5 witness: a request was resolved by its timeout while still in the
\* queue: the worker never took it.
C5_Witness ==
    \E c \in Conns :
        /\ conn[c].state = "done"
        /\ conn[c].reply = TimeoutError(c)
        /\ conn[c].id \in QueueIds

----------------------------------------------------------------------------
(* Claims about the result cache *)

SameCall(a, b) == a.tool = b.tool /\ a.args = b.args
Invocation(n, call) == [n |-> n, tool |-> call.tool, args |-> call.args]
EntriesOf(call) == {i \in 1..Len(toolCache) : SameCall(toolCache[i], call)}
Without(cache, call) == SelectSeq(cache, LAMBDA e : ~SameCall(e, call))
HandlerRuns(call) == running' = running \cup {Invocation(nCalls + 1, call)} /\ out' = out

\* C6: a cacheable call whose entry (same tool, identical arguments) is
\* stored and not past its expiresAt is answered with the stored result and
\* `cached: true`, and no handler runs; the entry goes to the back of the
\* cache with the expiresAt it had.  An entry's expiresAt is the time of
\* its store plus the tool's TTL (store 120000 ms, intl and flux 60000,
\* module, search and plugin 30000, any other tool 10000); a call that
\* finds its entry past expiresAt drops the entry and runs the handler.
C6_Ttl(tool) ==
    CASE tool = "store" -> 120000
      [] tool \in {"intl", "flux"} -> 60000
      [] tool \in {"module", "search", "plugin"} -> 30000
      [] OTHER -> 10000
C6_BeginStep ==
    \A call \in CallsOf(probe) :
        (isCacheable(call.tool, call.args) /\ ExecBegin(call)) =>
            IF EntriesOf(call) = {}
            THEN HandlerRuns(call) /\ toolCache' = toolCache
            ELSE LET e == toolCache[CHOOSE i \in EntriesOf(call) : TRUE]
                 IN IF now <= e.expiresAt
                    THEN /\ out' = [n |-> nCalls + 1, tool |-> call.tool, args |-> call.args,
                                    cached |-> TRUE, isError |-> FALSE, result |-> e.result]
                         /\ running' = running
                         /\ toolCache' = Append(Without(toolCache, call), e)
                    ELSE /\ HandlerRuns(call)
                         /\ toolCache' = Without(toolCache, call)
C6_StoreStep ==
    \A r \in running :
        (isCacheable(r.tool, r.args) /\ ExecEnd(r, "ok")) =>
            \E i \in 1..Len(toolCache') :
                /\ SameCall(toolCache'[i], r)
                /\ toolCache'[i].result = [error |-> FALSE, val |-> r.n]
                /\ toolCache'[i].expiresAt = now + C6_Ttl(r.tool)
C6_StoredWithinTtl ==
    \A i \in 1..Len(toolCache) :
        /\ toolCache[i].expiresAt - C6_Ttl(toolCache[i].tool) >= 0
        /\ toolCache[i].expiresAt - C6_Ttl(toolCache[i].tool) <= now
        /\ Cardinality(EntriesOf(toolCache[i])) = 1
C6_CachedUntilExpiry ==
    /\ []C6_StoredWithinTtl
    /\ [][C6_BeginStep /\ C6_StoreStep]_vars

\* C6 witness: the second call was answered from the cache, the TTL has
\* since elapsed, and the handler of the third, identical, call is running.
C6_Witness ==
    /\ isCacheable(probe.tool, probe.args)
    /\ out.n = 2 /\ out.cached /\ SameCall(out, probe)
    /\ now > C6_Ttl(probe.tool)
    /\ running = {Invocation(3, probe)}
    /\ toolCache = <<>>

\* A state of C6's last sentence: a hit at a later time has moved an entry
\* behind a younger one, and its expiresAt is the one of its store.
C6_HitMovedToBack ==
    /\ Len(toolCache) = 2
    /\ out.cached /\ out.n = 3 /\ SameCall(out, toolCache[2])
    /\ now > 0
    /\ toolCache[2].expiresAt = C6_Ttl(out.tool)

\* C7: the cache never holds more than 300 entries.  A result stored while
\* 300 entries are held removes the entry at the front and no other, and
\* below 300 it removes none; the order of the entries is the order of
\* their insertion, a hit putting its entry last.
C7_AtMost300 == Len(toolCache) <= 300
C7_StoreStep ==
    \A r \in running :
        (isCacheable(r.tool, r.args) /\ ExecEnd(r, "ok")) =>
            /\ \E i \in 1..Len(toolCache') :
                    SameCall(toolCache'[i], r) /\ toolCache'[i].result.val = r.n
            /\ Without(toolCache', r) =
                    Without(IF Len(toolCache) = 300 THEN Tail(toolCache) ELSE toolCache, r)
            /\ EntriesOf(r) = {} => toolCache'[Len(toolCache')].result.val = r.n
C7_HitStep ==
    \A call \in CallsOf(probe) :
        (ExecBegin(call) /\ out'.cached /\ out'.n = nCalls + 1) =>
            /\ Len(toolCache') = Len(toolCache)
            /\ SameCall(toolCache'[Len(toolCache')], call)
            /\ Without(toolCache', call) = Without(toolCache, call)
C7_Capacity ==
    /\ []C7_AtMost300
    /\ [][C7_StoreStep /\ C7_HitStep]_vars

\* C7 witness: 300 entries are held; the oldest stored entry was hit, went
\* to the back and is still held, and the second oldest was evicted.
C7_Witness ==
    /\ Len(toolCache) = 300
    /\ toolCache[1] = Filler(3)
    /\ \E i \in 1..Len(toolCache) : toolCache[i] = Filler(1)
    /\ \A i \in 1..Len(toolCache) : toolCache[i] # Filler(2)

\* C8 (as the source has it): no entry holds a result with an `error`
\* member; a call whose handler returns such a result, or throws, leaves
\* the cache as it was.  The next identical call after it runs the handler
\* again, unless an identical call that ran at the same time has stored
\* its result: then that result, never the error, is served.
C8_NoErrorEntry == \A i \in 1..Len(toolCache) : ~toolCache[i].result.error
C8_ErrorStep ==
    \A r \in running :
        (ExecEnd(r, "error") \/ ExecEnd(r, "throw")) => toolCache' = toolCache
C8_AfterError(call) == out.n > 0 /\ SameCall(out, call) /\ (out.isError \/ out.result.error)
C8_NextCallStep ==
    \A call \in CallsOf(probe) :
        (ExecBegin(call) /\ C8_AfterError(call)) =>
            \/ HandlerRuns(call)
            \/ /\ EntriesOf(call) # {}
               /\ out'.cached /\ ~out'.result.error /\ out'.result.val # out.n
               /\ out'.result.val < nCalls + 1
MemberSet(args) == {args[i] : i \in 1..Len(args)}
C9_KeyIgnoresMemberOrder ==
    \A i, j \in 1..Len(toolCache) :
        (toolCache[i].tool = toolCache[j].tool /\ MemberSet(toolCache[i].args) = MemberSet(toolCache[j].args))
            => toolCache[i].key = toolCache[j].key

\* C9 witness: the result of a call is cached and fresh, and the handler of
\* the same call with its two members in the other order is running.
C9_Witness ==
    /\ Len(toolCache) = 1
    /\ now <= toolCache[1].expiresAt
    /\ \E r \in running :
            /\ r.tool = toolCache[1].tool
            /\ r.args # toolCache[1].args
            /\ MemberSet(r.args) = MemberSet(toolCache[1].args)

\* C10: a call of evaluateCode or reloadDiscord, or a call whose action is
\* in its tool's non-cacheable set, always runs its handler, and neither
\* its start nor its return changes the cache.
C10_Actions(tool) ==
    CASE tool = "module" -> {"loadLazy", "watch", "watchGet", "watchStop", "diff", "annotate", "extract"}
      [] tool = "flux" -> {"dispatch"}
      [] tool = "store" -> {"call", "state"}
      [] tool = "plugin" -> {"toggle", "enable", "disable", "setSetting"}
      [] tool = "discord" -> {"api"}
      [] tool = "trace" -> {"start", "get", "stop", "store"}
      [] tool = "intercept" -> {"set", "get", "stop"}
      [] OTHER -> {}
C10_Excluded(call) ==
    \/ call.tool \in {"evaluateCode", "reloadDiscord"}
    \/ \E i \in 1..Len(call.args) :
            call.args[i].key = "action" /\ call.args[i].value.text \in C10_Actions(call.tool)
C10_BeginStep ==
    \A call \in CallsOf(probe) :
        (C10_Excluded(call) /\ ExecBegin(call)) => HandlerRuns(call) /\ toolCache' = toolCache
C10_EndStep ==
    \A r \in running, outcome \in {"ok", "error", "throw"} :
        (C10_Excluded(r) /\ ExecEnd(r, outcome)) => toolCache' = toolCache /\ ~out'.cached
C10_NoExcludedEntry == \A i \in 1..Len(toolCache) : ~C10_Excluded(toolCache[i])
C10_NeverCached ==
    /\ []C10_NoExcludedEntry
    /\ [][C10_BeginStep /\ C10_EndStep]_vars

\* C10 witness: the handler of an excluded call has returned a result
\* while the cache held another call's entry, and only that entry is
\* cached.
C10_Witness ==
    /\ C10_Excluded(probe)
    /\ nCalls = 3 /\ running = {}
    /\ out.n = 3 /\ SameCall(out, probe) /\ ~out.cached /\ ~out.result.error
    /\ Len(toolCache) = 1 /\ SameCall(toolCache[1], BackgroundCall)
    /\ toolCache[1].result.val = 1

\* C11 as stated: a call whose handler changes state (trace with a filter
\* and no action, which starts a trace; react with action modify) runs its
\* handler every time and is never answered from the cache.
HasMember(args, key) == \E i \in 1..Len(args) : args[i].key = key
ActionIs(args, action) ==
    \E i \in 1..Len(args) : args[i].key = "action" /\ args[i].value = Str(action)
C11_ChangesState(call) ==
    \/ call.tool = "trace" /\ HasMember(call.args, "filter") /\ ~HasMember(call.args, "action")
    \/ call.tool = "react" /\ ActionIs(call.args, "modify")
C11_StateChangingCallRuns ==
    [][\A call \in CallsOf(probe) :
            (C11_ChangesState(call) /\ ExecBegin(call)) => HandlerRuns(call)]_vars

\* C11 witness: a trace call with a filter and no action returned the
\* result of the first such call, answered from the cache, and no handler
\* ran for it.
C11_Witness ==
    /\ out.tool = "trace" /\ C11_ChangesState(out)
    /\ out.n = 2 /\ out.cached /\ out.result.val = 1
    /\ running = {}

----------------------------------------------------------------------------
(* executeToolCall: a read call and a non-cacheable call of one tool *)

\* A read call of a tool, and the calls of the table of non-cacheable
\* actions.
ReadCall(tool) == [tool |-> tool, args |-> <<Member("action", Str("list"))>>]
MutatingCalls == {c \in ProbeCalls : HasAction(NON_CACHEABLE_ACTIONS(c.tool), c.args)}

InitCacheMutation ==
    /\ BrokerInit
    /\ ResInit
    /\ toolCache = <<>>
    /\ running = {}
    /\ nCalls = 0
    /\ out = NoReturn
    /\ probe \in MutatingCalls
    /\ sessionStats = NoSession

\* A client that calls a non-cacheable action of a tool and reads from the
\* same tool, one call after the other.
NextCacheMutation ==
    \/ \E call \in {probe, ReadCall(probe.tool)} : running = {} /\ ExecBegin(call)
    \/ \E r \in running, outcome \in {"ok", "error", "throw"} : ExecEnd(r, outcome)
    \/ CacheTick

SpecCacheMutation == InitCacheMutation /\ [][NextCacheMutation]_vars

\* C12 as stated: once a non-cacheable action of a tool has run, a read of
\* that tool is not answered with a result cached before it.
C12_Mutated(tool) ==
    /\ out.n > 0 /\ out.tool = tool /\ C10_Excluded(out)
    /\ ~out.isError /\ ~out.result.error
C12_NoStaleRead ==
    [][\A call \in {ReadCall(probe.tool)} :
            (ExecBegin(call) /\ C12_Mutated(call.tool)) =>
                ~(out'.cached /\ out'.n = nCalls + 1 /\ out'.result.val < out.n)]_vars

\* C12 witness: a non-cacheable action of a tool has returned its result,
\* and the result of an earlier read of the tool is still cached and fresh.
C12_Witness ==
    /\ C12_Mutated(probe.tool) /\ out.n = 2 /\ running = {}
    /\ Len(toolCache) = 1
    /\ SameCall(toolCache[1], ReadCall(probe.tool))
    /\ toolCache[1].result.val = 1
    /\ now <= toolCache[1].expiresAt

----------------------------------------------------------------------------
(* Traces, intercepts and module watches: the registries of tools/utils *)

\* At most MaxStarts traces, intercepts and module watches are started in
\* all, each with a maxCaptures of at most MaxCaptures.
MaxStarts == 2
MaxCaptures == 1
\* The intercepted function re-enters its export to this depth, and a
\* listener notification brings up to this many new modules.
MaxDepth == MaxCaptures + 1
MaxNewModules == MaxCaptures + 1

\* The durations a call without `duration` gets.
TRACE_DURATION == 10000
INTERCEPT_DURATION == 30000
WATCH_DURATION == 30000

Started == Len(traces) + Len(intercepts) + Len(watches)

\* The ids of the objects of a registry that are in its Map.  The ids grow
\* with every start, so the Map's iteration order is the order of the ids.
Active(objects) == {id \in 1..Len(objects) : objects[id].active}

\* An id taken from the number of entries the registry's Map holds.
NextId_FromMapSize(objects) == Cardinality(Active(objects)) + 1

\* state.nextId++ : the counter starts at 1 and every start takes the next
\* value, so it is one more than the number of objects made so far.
NextId(objects) == Len(objects) + 1

Answer(tool, action, id, answer, ids) ==
    [tool |-> tool, action |-> action, id |-> id, answer |-> answer, ids |-> ids]

----------------------------------------------------------------------------
(* intercept *)

\* cleanupIntercept(id) on the registry and the export: the restore is
\* tried, a failure is swallowed, and the entry is deleted either way.
\* `restored` counts the restores tried for the intercept.
cleanupIntercept(s, id) ==
    IF ~s.ints[id].active THEN s
    ELSE [ints |-> [s.ints EXCEPT ![id].active = FALSE, ![id].restored = @ + 1],
          exp |-> IF frozen THEN s.exp ELSE s.ints[id].original]

\* The loop of cleanupExpiredIntercepts (expiredOnly) and of
\* cleanupAllIntercepts, from the entry `id` on.
RECURSIVE CleanupInterceptsFrom(_, _, _)
CleanupInterceptsFrom(s, id, expiredOnly) ==
    IF id > Len(s.ints) THEN s
    ELSE CleanupInterceptsFrom(
            IF s.ints[id].active /\ (~expiredOnly \/ now >= s.ints[id].expiresAt)
            THEN cleanupIntercept(s, id) ELSE s,
            id + 1, expiredOnly)

cleanupExpiredIntercepts ==
    CleanupInterceptsFrom([ints |-> intercepts, exp |-> exportFn], 1, TRUE)
cleanupAllIntercepts(s) == CleanupInterceptsFrom(s, 1, FALSE)

\* handleInterceptTool, action set: the id is taken before the wrapper is
\* installed; when the export cannot be redefined the call answers an
\* error and registers nothing.
InterceptSet(maxCaptures) ==
    /\ polling
    /\ stack = <<>>
    /\ Started < MaxStarts
    /\ LET s == cleanupExpiredIntercepts
           id == NextId(intercepts)
           intercept == [id |-> id, original |-> s.exp, maxCaptures |-> maxCaptures, captures |-> 0,
                         expiresAt |-> now + INTERCEPT_DURATION, active |-> ~frozen, restored |-> 0]
       IN /\ intercepts' = Append(s.ints, intercept)
          /\ exportFn' = IF frozen THEN s.exp ELSE id
          /\ ret' = Answer("intercept", "set", id, IF frozen THEN "error" ELSE "set", {})
    /\ UNCHANGED <<now, traces, interceptor, dispatcherInterceptors, frozen, stack, watches, polling, brokerVars, workerVars, cacheVars>>

\* handleInterceptTool, action get: id 0 is a call without id (the listing).
InterceptGet(id) ==
    /\ polling
    /\ stack = <<>>
    /\ LET s == cleanupExpiredIntercepts
       IN /\ intercepts' = s.ints
          /\ exportFn' = s.exp
          /\ ret' = IF id = 0 THEN Answer("intercept", "get", 0, "list", Active(s.ints))
                    ELSE IF id \in Active(s.ints) THEN Answer("intercept", "get", id, "found", {id})
                    ELSE Answer("intercept", "get", id, "notFound", {})
    /\ UNCHANGED <<now, traces, interceptor, dispatcherInterceptors, frozen, stack, watches, polling, brokerVars, workerVars, cacheVars>>

\* handleInterceptTool, action stop: without id every intercept is cleaned
\* up; with an id the answer is `stopped: true` whatever the restore did.
InterceptStop(id) ==
    /\ polling
    /\ stack = <<>>
    /\ LET s == cleanupExpiredIntercepts
           t == IF id = 0 THEN cleanupAllIntercepts(s)
                ELSE IF id \in Active(s.ints) THEN cleanupIntercept(s, id)
                ELSE s
       IN /\ intercepts' = t.ints
          /\ exportFn' = t.exp
          /\ ret' = IF id = 0 THEN Answer("intercept", "stop", 0, "stoppedAll", Active(s.ints))
                    ELSE IF id \in Active(s.ints) THEN Answer("intercept", "stop", id, "stopped", {id})
                    ELSE Answer("intercept", "stop", id, "notFound", {})
    /\ UNCHANGED <<now, traces, interceptor, dispatcherInterceptors, frozen, stack, watches, polling, brokerVars, workerVars, cacheVars>>

\* Other code freezes the module's exports while a wrapper is installed.
Freeze ==
    /\ stack = <<>>
    /\ ~frozen
    /\ exportFn # 0
    /\ frozen' = TRUE
    /\ UNCHANGED <<now, traces, interceptor, dispatcherInterceptors, intercepts, exportFn, stack, watches, polling, ret,
                   brokerVars, workerVars, cacheVars>>

\* A call of wrapper w runs down the wrappers it wraps to the function:
\* each wrapper decides on entry whether it will record the call.
RECURSIVE Chain(_)
Chain(w) ==
    IF w = 0 THEN <<>>
    ELSE <<[w |-> w, capture |-> intercepts[w].captures < intercepts[w].maxCaptures]>>
            \o Chain(intercepts[w].original)

\* The export is called: by other code, or by the intercepted function
\* itself while it runs.
CallExport ==
    /\ exportFn # 0
    /\ Len(stack) < MaxDepth
    /\ stack' = Append(stack, Chain(exportFn))
    /\ UNCHANGED <<now, traces, interceptor, dispatcherInterceptors, intercepts, exportFn, frozen, watches, polling, ret,
                   brokerVars, workerVars, cacheVars>>

\* The function returns or throws: every wrapper of the call that decided
\* to record pushes its capture, and hands the result or the exception on.
FnReturn(outcome) ==
    /\ stack # <<>>
    /\ LET call == stack[Len(stack)]
           Recorded(id) == \E k \in 1..Len(call) : call[k].w = id /\ call[k].capture
       IN /\ intercepts' = [id \in 1..Len(intercepts) |->
                                IF Recorded(id) THEN [intercepts[id] EXCEPT !.captures = @ + 1]
                                ELSE intercepts[id]]
          /\ ret' = Answer("export", "call", call[1].w, outcome, {})
    /\ stack' = SubSeq(stack, 1, Len(stack) - 1)
    /\ UNCHANGED <<now, traces, interceptor, dispatcherInterceptors, exportFn, frozen, watches, polling, brokerVars, workerVars, cacheVars>>

----------------------------------------------------------------------------
(* trace *)

\* cleanupTrace(id) on the registry and the dispatcher's interceptor.
\* unsub runs first: when it throws, the exception leaves cleanupTrace
\* before the entry is deleted.  `cleaned` counts the cleanups of the
\* trace that ran to their end.
cleanupTrace(s, id) ==
    IF ~s.trs[id].active THEN s
    ELSE IF s.trs[id].isStoreTrace /\ s.trs[id].unsubThrows
    THEN [s EXCEPT !.threw = TRUE]
    ELSE LET trs == [s.trs EXCEPT ![id].active = FALSE, ![id].cleaned = @ + 1]
             last == Active(trs) = {} /\ s.icpt
         IN [s EXCEPT !.trs = trs,
                      !.disp = IF last /\ s.disp > 0 THEN s.disp - 1 ELSE s.disp,
                      !.icpt = IF last THEN FALSE ELSE s.icpt]

\* The loop of cleanupExpiredTraces (expiredOnly) and of cleanupAllTraces,
\* from the entry `id` on: an exception ends it.
RECURSIVE CleanupTracesFrom(_, _, _)
CleanupTracesFrom(s, id, expiredOnly) ==
    IF id > Len(s.trs) \/ s.threw THEN s
    ELSE CleanupTracesFrom(
            IF s.trs[id].active /\ (~expiredOnly \/ now >= s.trs[id].expiresAt)
            THEN cleanupTrace(s, id) ELSE s,
            id + 1, expiredOnly)

\* A handleTraceTool that does not sweep.
cleanupExpiredTraces_NoSweep == [trs |-> traces, icpt |-> interceptor, disp |-> dispatcherInterceptors, threw |-> FALSE]

cleanupExpiredTraces ==
    CleanupTracesFrom([trs |-> traces, icpt |-> interceptor, disp |-> dispatcherInterceptors, threw |-> FALSE], 1, TRUE)
cleanupAllTraces(s) == CleanupTracesFrom(s, 1, FALSE)

\* A start that adds the interceptor to the dispatcher whether or not
\* traceState holds one already.
addInterceptor_Unguarded(s, isStoreTrace) ==
    IF ~isStoreTrace THEN s.disp + 1 ELSE s.disp

\* `if (!traceState.interceptor) { ...; dispatcher.addInterceptor(...) }`
\* of a start after the sweep s: the dispatcher's count of trace
\* interceptors.  The store action never adds one.
addInterceptor(s, isStoreTrace) ==
    IF ~isStoreTrace /\ ~s.icpt THEN s.disp + 1 ELSE s.disp

\* handleTraceTool, action start (or a filter and no action) and action
\* store: the sweep, then the new trace.  A flux trace installs the
\* interceptor when there is none; a store trace subscribes to its store,
\* whose removeChangeListener may be one that throws.
TraceStart(isStoreTrace, maxCaptures, unsubThrows) ==
    /\ polling
    /\ stack = <<>>
    /\ Started < MaxStarts
    /\ LET s == cleanupExpiredTraces
           id == NextId(traces)
           trace == [id |-> id, isStoreTrace |-> isStoreTrace, maxCaptures |-> maxCaptures, captures |-> 0,
                     expiresAt |-> now + TRACE_DURATION, unsubThrows |-> unsubThrows,
                     active |-> TRUE, cleaned |-> 0]
       IN IF s.threw
          THEN /\ traces' = s.trs
               /\ interceptor' = s.icpt
               /\ dispatcherInterceptors' = s.disp
               /\ ret' = Answer("trace", IF isStoreTrace THEN "store" ELSE "start", 0, "threw", {})
          ELSE /\ traces' = Append(s.trs, trace)
               /\ interceptor' = (s.icpt \/ ~isStoreTrace)
               /\ dispatcherInterceptors' = addInterceptor(s, isStoreTrace)
               /\ ret' = Answer("trace", IF isStoreTrace THEN "store" ELSE "start", id, "started", {})
    /\ UNCHANGED <<now, intercepts, exportFn, frozen, stack, watches, polling, brokerVars, workerVars, cacheVars>>

\* handleTraceTool, action get: id 0 is a call without id (the listing).
TraceGet(id) ==
    /\ polling
    /\ stack = <<>>
    /\ LET s == cleanupExpiredTraces
       IN /\ traces' = s.trs
          /\ interceptor' = s.icpt
          /\ dispatcherInterceptors' = s.disp
          /\ ret' = IF s.threw THEN Answer("trace", "get", id, "threw", {})
                    ELSE IF id = 0 THEN Answer("trace", "get", 0, "list", Active(s.trs))
                    ELSE IF id \in Active(s.trs) THEN Answer("trace", "get", id, "found", {id})
                    ELSE Answer("trace", "get", id, "notFound", {})
    /\ UNCHANGED <<now, intercepts, exportFn, frozen, stack, watches, polling, brokerVars, workerVars, cacheVars>>

\* handleTraceTool, action stop.
TraceStop(id) ==
    /\ polling
    /\ stack = <<>>
    /\ LET s == cleanupExpiredTraces
           t == IF s.threw THEN s
                ELSE IF id = 0 THEN cleanupAllTraces(s)
                ELSE IF id \in Active(s.trs) THEN cleanupTrace(s, id)
                ELSE s
       IN /\ traces' = t.trs
          /\ interceptor' = t.icpt
          /\ dispatcherInterceptors' = t.disp
          /\ ret' = IF t.threw THEN Answer("trace", "stop", id, "threw", {})
                    ELSE IF id = 0 THEN Answer("trace", "stop", 0, "stoppedAll", Active(s.trs))
                    ELSE IF id \in Active(s.trs) THEN Answer("trace", "stop", id, "stopped", {id})
                    ELSE Answer("trace", "stop", id, "notFound", {})
    /\ UNCHANGED <<now, intercepts, exportFn, frozen, stack, watches, polling, brokerVars, workerVars, cacheVars>>

\* A Flux action is dispatched: the interceptor pushes a capture on every
\* flux trace in the registry that is not expired, not full, and whose
\* filter matches (the traces of `matching`).
FluxDispatch(matching) ==
    /\ interceptor
    /\ stack = <<>>
    /\ traces' = [id \in 1..Len(traces) |->
                    IF /\ traces[id].active /\ ~traces[id].isStoreTrace
                       /\ ~(now >= traces[id].expiresAt \/ traces[id].captures >= traces[id].maxCaptures)
                       /\ id \in matching
                    THEN [traces[id] EXCEPT !.captures = @ + 1]
                    ELSE traces[id]]
    /\ UNCHANGED <<now, interceptor, dispatcherInterceptors, intercepts, exportFn, frozen, stack, watches, polling, ret,
                   brokerVars, workerVars, cacheVars>>

\* The store of store trace `id` emits a change: the trace's handler runs
\* for as long as it is subscribed.
StoreChange(id) ==
    /\ id \in Active(traces) /\ traces[id].isStoreTrace
    /\ stack = <<>>
    /\ traces' = IF traces[id].captures >= traces[id].maxCaptures THEN traces
                 ELSE [traces EXCEPT ![id].captures = @ + 1]
    /\ UNCHANGED <<now, interceptor, dispatcherInterceptors, intercepts, exportFn, frozen, stack, watches, polling, ret,
                   brokerVars, workerVars, cacheVars>>

----------------------------------------------------------------------------
(* module watch *)

\* cleanupModuleWatch(id): the listener leaves factoryListeners and the
\* entry is deleted.
cleanupModuleWatch(ws, id) ==
    IF ~ws[id].active THEN ws
    ELSE [ws EXCEPT ![id].active = FALSE, ![id].listening = FALSE, ![id].cleaned = @ + 1]

RECURSIVE CleanupWatchesFrom(_, _)
CleanupWatchesFrom(ws, id) ==
    IF id > Len(ws) THEN ws
    ELSE CleanupWatchesFrom(cleanupModuleWatch(ws, id), id + 1)

cleanupAllModuleWatches(ws) == CleanupWatchesFrom(ws, 1)

\* handleModuleTool, action watch.  No action of handleModuleTool calls
\* cleanupExpiredModuleWatches.
ModuleWatch(maxCaptures) ==
    /\ polling
    /\ stack = <<>>
    /\ Started < MaxStarts
    /\ LET id == NextId(watches)
       IN /\ watches' = Append(watches,
                            [id |-> id, maxCaptures |-> maxCaptures, newModules |-> 0,
                             expiresAt |-> now + WATCH_DURATION, active |-> TRUE, listening |-> TRUE,
                             cleaned |-> 0])
          /\ ret' = Answer("module", "watch", id, "started", {})
    /\ UNCHANGED <<now, traces, interceptor, dispatcherInterceptors, intercepts, exportFn, frozen, stack, polling,
                   brokerVars, workerVars, cacheVars>>

\* handleModuleTool, action watchGet: id 0 is a call without watchId.
ModuleWatchGet(id) ==
    /\ polling
    /\ stack = <<>>
    /\ ret' = IF id = 0 THEN Answer("module", "watchGet", 0, "list", Active(watches))
              ELSE IF id \in Active(watches) THEN Answer("module", "watchGet", id, "found", {id})
              ELSE Answer("module", "watchGet", id, "notFound", {})
    /\ UNCHANGED <<now, traces, interceptor, dispatcherInterceptors, intercepts, exportFn, frozen, stack, watches, polling,
                   brokerVars, workerVars, cacheVars>>

\* handleModuleTool, action watchStop.
ModuleWatchStop(id) ==
    /\ polling
    /\ stack = <<>>
    /\ watches' = IF id = 0 THEN cleanupAllModuleWatches(watches)
                  ELSE IF id \in Active(watches) THEN cleanupModuleWatch(watches, id)
                  ELSE watches
    /\ ret' = IF id = 0 THEN Answer("module", "watchStop", 0, "stoppedAll", Active(watches))
              ELSE IF id \in Active(watches) THEN Answer("module", "watchStop", id, "stopped", {id})
              ELSE Answer("module", "watchStop", id, "notFound", {})
    /\ UNCHANGED <<now, traces, interceptor, dispatcherInterceptors, intercepts, exportFn, frozen, stack, polling,
                   brokerVars, workerVars, cacheVars>>

\* factoryListeners are notified after `count` module factories, all new
\* to the watches and matching their filters, were added: a listener
\* returns at once when its watch is full, and otherwise pushes every one.
FactoryNotify(count) ==
    /\ \E id \in 1..Len(watches) : watches[id].listening
    /\ stack = <<>>
    /\ watches' = [id \in 1..Len(watches) |->
                    IF watches[id].listening /\ ~(watches[id].newModules >= watches[id].maxCaptures)
                    THEN [watches[id] EXCEPT !.newModules = @ + count]
                    ELSE watches[id]]
    /\ UNCHANGED <<now, traces, interceptor, dispatcherInterceptors, intercepts, exportFn, frozen, stack, polling, ret,
                   brokerVars, workerVars, cacheVars>>

----------------------------------------------------------------------------
(* The plugin's stop, the clock, and the specification of the registries *)

\* stop(): cleanupAllTraces, cleanupAllIntercepts, cleanupAllModuleWatches,
\* toolCache.clear() and Native.stopServer(), in this order and with no
\* try around any of them: an exception of cleanupAllTraces ends stop.
stop ==
    /\ polling
    /\ stack = <<>>
    /\ polling' = FALSE
    /\ LET s == cleanupAllTraces([trs |-> traces, icpt |-> interceptor, disp |-> dispatcherInterceptors, threw |-> FALSE])
           t == cleanupAllIntercepts([ints |-> intercepts, exp |-> exportFn])
       IN /\ traces' = s.trs
          /\ interceptor' = s.icpt
          /\ dispatcherInterceptors' = s.disp
          /\ IF s.threw
             THEN /\ ret' = Answer("plugin", "stop", 0, "threw", {})
                  /\ UNCHANGED <<intercepts, exportFn, watches, toolCache, server, bound, requestQueue,
                                 pendingRequests, timeouts, armed, stats, conn>>
             ELSE /\ ret' = Answer("plugin", "stop", 0, "stopped", {})
                  /\ intercepts' = t.ints
                  /\ exportFn' = t.exp
                  /\ watches' = cleanupAllModuleWatches(watches)
                  /\ toolCache' = <<>>
                  /\ clearPendingRequests("Server stopped")
                  /\ server' = FALSE
                  /\ bound' = FALSE
    /\ UNCHANGED <<now, requestId, reloadWaitUntil, inflight, running, nCalls, out, probe, sessionStats, frozen, stack>>

\* The clock runs on to the next expiresAt of a registered resource.
ResourceExpiries ==
    {e \in {traces[id].expiresAt : id \in Active(traces)}
            \cup {intercepts[id].expiresAt : id \in Active(intercepts)}
            \cup {watches[id].expiresAt : id \in Active(watches)} : e > now}

ResourceTick ==
    /\ stack = <<>>
    /\ LET times == ResourceExpiries
       IN \E t \in times :
            /\ \A u \in times : t <= u
            /\ now' = t
    /\ UNCHANGED <<brokerVars, workerVars, cacheVars, resVars>>

\* The ids a client asks for: none (0), or one it was given.
Ids(objects) == 0..Len(objects)

NextResources ==
    \/ \E isStoreTrace, unsubThrows \in BOOLEAN, maxCaptures \in 0..MaxCaptures :
            (unsubThrows => isStoreTrace) /\ TraceStart(isStoreTrace, maxCaptures, unsubThrows)
    \/ \E id \in Ids(traces) : TraceGet(id)
    \/ \E id \in Ids(traces) : TraceStop(id)
    \/ \E matching \in SUBSET Active(traces) : FluxDispatch(matching)
    \/ \E id \in 1..MaxStarts : StoreChange(id)
    \/ \E maxCaptures \in 0..MaxCaptures : InterceptSet(maxCaptures)
    \/ \E id \in Ids(intercepts) : InterceptGet(id)
    \/ \E id \in Ids(intercepts) : InterceptStop(id)
    \/ Freeze
    \/ CallExport
    \/ \E outcome \in {"return", "throw"} : FnReturn(outcome)
    \/ \E maxCaptures \in 0..MaxCaptures : ModuleWatch(maxCaptures)
    \/ \E id \in Ids(watches) : ModuleWatchGet(id)
    \/ \E id \in Ids(watches) : ModuleWatchStop(id)
    \/ \E count \in 1..MaxNewModules : FactoryNotify(count)
    \/ stop
    \/ ResourceTick

\* The plugin is started: the server listens and a result is cached.
InitResources ==
    /\ now = 0
    /\ server = TRUE
    /\ bound = TRUE
    /\ requestId = 0
    /\ reloadWaitUntil = 0
    /\ requestQueue = <<>>
    /\ pendingRequests = EmptyMap
    /\ timeouts = EmptyMap
    /\ armed = {}
    /\ stats = [requests |-> 0, success |-> 0, errors |-> 0, timeouts |-> 0]
    /\ conn = <<>>
    /\ inflight = {}
    /\ toolCache = Prefilled(1)
    /\ running = {}
    /\ nCalls = 0
    /\ out = NoReturn
    /\ probe = BackgroundCall
    /\ sessionStats = NoSession
    /\ ResInit

SpecResources == InitResources /\ [][NextResources]_vars

\* The registries alone: the tool calls, stop and the clock, with no event
\* for a trace, an intercept or a watch to record.
NextRegistry ==
    \/ \E isStoreTrace, unsubThrows \in BOOLEAN :
            (unsubThrows => isStoreTrace) /\ TraceStart(isStoreTrace, MaxCaptures, unsubThrows)
    \/ \E id \in Ids(traces) : TraceGet(id)
    \/ \E id \in Ids(traces) : TraceStop(id)
    \/ InterceptSet(MaxCaptures)
    \/ \E id \in Ids(intercepts) : InterceptGet(id)
    \/ \E id \in Ids(intercepts) : InterceptStop(id)
    \/ Freeze
    \/ ModuleWatch(MaxCaptures)
    \/ \E id \in Ids(watches) : ModuleWatchGet(id)
    \/ \E id \in Ids(watches) : ModuleWatchStop(id)
    \/ stop
    \/ ResourceTick

SpecRegistry == InitResources /\ [][NextRegistry]_vars

----------------------------------------------------------------------------
(* Claims about traces, intercepts and module watches *)

\* C13 as stated: no flux trace, store trace or intercept ever holds more
\* captures than its maxCaptures.
C13_TracesWithinMaxCaptures ==
    \A id \in 1..Len(traces) : traces[id].captures <= traces[id].maxCaptures
C13_WithinMaxCaptures ==
    /\ C13_TracesWithinMaxCaptures
    /\ \A id \in 1..Len(intercepts) : intercepts[id].captures <= intercepts[id].maxCaptures

\* C13 witness: an intercept holds maxCaptures captures, and a later call
\* of its wrapper, which recorded nothing, handed on the function's
\* exception.
C13_Witness ==
    /\ stack = <<>>
    /\ ret = Answer("export", "call", 1, "throw", {})
    /\ exportFn = 1
    /\ intercepts[1].maxCaptures = 0
    /\ intercepts[1].captures = 0

\* C14 as stated: no module watch ever holds more new modules than its
\* maxCaptures, however many new module ids one notification of its
\* listener finds.
C14_NewModulesWithinMaxCaptures ==
    \A id \in 1..Len(watches) : watches[id].newModules <= watches[id].maxCaptures

\* C14 witness: a listening watch was notified of new modules and is full.
C14_Witness ==
    /\ Len(watches) >= 1
    /\ watches[1].listening
    /\ watches[1].maxCaptures = MaxCaptures
    /\ watches[1].newModules = watches[1].maxCaptures
    /\ watches[1].newModules > 0

\* The first stop of an intercept: stop(id) on an intercept of the registry.
C15_FirstStop(id) == id \in Active(intercepts) /\ InterceptStop(id)
\* A further stop: stop(id) on an intercept or trace that was stopped or
\* swept before, with nothing else in the registry left to sweep.
C15_FurtherInterceptStop(id) ==
    /\ ~intercepts[id].active
    /\ intercepts[id].restored > 0
    /\ \A j \in Active(intercepts) : now < intercepts[j].expiresAt
    /\ InterceptStop(id)
C15_FurtherTraceStop(id) ==
    /\ ~traces[id].active
    /\ \A j \in Active(traces) : now < traces[j].expiresAt
    /\ TraceStop(id)

\* The cleanup action of no resource runs twice.
C15_CleanupRunsOnce ==
    /\ \A id \in 1..Len(intercepts) : intercepts[id].restored <= 1
    /\ \A id \in 1..Len(traces) : traces[id].cleaned <= 1
\* A further stop answers not found and changes neither the registry nor
\* the export.
C15_FurtherStopNotFound ==
    [][/\ \A id \in 1..Len(intercepts) : C15_FurtherInterceptStop(id) =>
            /\ ret' = Answer("intercept", "stop", id, "notFound", {})
            /\ UNCHANGED <<intercepts, exportFn>>
       /\ \A id \in 1..Len(traces) : C15_FurtherTraceStop(id) =>
            /\ ret' = Answer("trace", "stop", id, "notFound", {})
            /\ UNCHANGED <<traces, interceptor>>]_vars

\* With every intercept stopped, the export holds the function itself.
C15_NoStaleWrapper == Active(intercepts) = {} => exportFn = 0

\* C15 as stated: stopping is idempotent (a further stop answers not found,
\* changes nothing and reruns no cleanup), and after the first stop of an
\* intercept the export holds the intercept's original function, which is
\* the function itself once no intercept is left.
C15_StopIdempotent ==
    /\ []C15_CleanupRunsOnce
    /\ C15_FurtherStopNotFound
    /\ []C15_NoStaleWrapper
    /\ [][\A id \in 1..Len(intercepts) : C15_FirstStop(id) =>
            /\ ret' = Answer("intercept", "stop", id, "stopped", {id})
            /\ exportFn' = intercepts[id].original]_vars

\* C15 witness: intercept 1 was stopped, its original function is back on
\* the export, and a further stop of it answered not found.
C15_Witness ==
    /\ ret = Answer("intercept", "stop", 1, "notFound", {})
    /\ ~intercepts[1].active
    /\ intercepts[1].restored = 1
    /\ exportFn = intercepts[1].original

\* The invocations of the trace tool and of the intercept tool.
C16_TraceCall ==
    \/ \E isStoreTrace, unsubThrows \in BOOLEAN : TraceStart(isStoreTrace, MaxCaptures, unsubThrows)
    \/ \E id \in Ids(traces) : TraceGet(id) \/ TraceStop(id)
C16_InterceptCall ==
    \/ InterceptSet(MaxCaptures)
    \/ \E id \in Ids(intercepts) : InterceptGet(id) \/ InterceptStop(id)

\* What an invocation that answered `r` shows of the objects that were in
\* the registry before it: get and stop of an expired id answer not found,
\* and a listing or a stop of all names no expired id.
C16_ExpiredUnseen(r, objects) ==
    /\ (r.action \in {"get", "stop"} /\ r.id \in 1..Len(objects) /\ now >= objects[r.id].expiresAt)
            => r.answer = "notFound"
    /\ \A j \in r.ids : j \in 1..Len(objects) => now < objects[j].expiresAt

C17_ModuleCall ==
    \/ ModuleWatch(MaxCaptures)
    \/ \E id \in Ids(watches) : ModuleWatchGet(id) \/ ModuleWatchStop(id)

\* C17 as stated: every invocation of the module tool first sweeps the
\* watches with expiresAt <= now: they are out of the registry, their
\* listeners out of factoryListeners, watchGet and watchStop of such an id
\* answer not found and the listing omits it.
C17_ExpiredWatchesSwept ==
    [][C17_ModuleCall =>
            /\ \A j \in 1..Len(watches) : now >= watches[j].expiresAt =>
                    ~watches'[j].active /\ ~watches'[j].listening
            /\ C16_ExpiredUnseen([ret' EXCEPT !.action = IF @ = "watchGet" THEN "get"
                                                         ELSE IF @ = "watchStop" THEN "stop" ELSE @],
                                 watches)]_vars

\* C17 witness: the clock stands at the expiresAt of watch 1, and a
\* watchGet of it has answered.
C17_Witness ==
    /\ Len(watches) >= 1
    /\ now >= watches[1].expiresAt
    /\ ret.tool = "module" /\ ret.action = "watchGet" /\ ret.id = 1
    /\ watches[1].cleaned = 0

\* C18 as stated: the plugin's stop and a stop without id never throw and
\* leave no trace, intercept or module watch of the kinds they tear down
\* in a registry, whatever a cleanup action does; the plugin's stop goes on
\* to clear the cache and to stop the server.
C18_BulkTeardownCompletes ==
    [][/\ stop =>
            /\ ret' = Answer("plugin", "stop", 0, "stopped", {})
            /\ Active(traces') = {} /\ Active(intercepts') = {} /\ Active(watches') = {}
            /\ \A id \in 1..Len(watches) : ~watches'[id].listening
            /\ toolCache' = <<>>
            /\ ~server'
       /\ TraceStop(0) => ret'.answer = "stoppedAll" /\ Active(traces') = {}
       /\ InterceptStop(0) => ret'.answer = "stoppedAll" /\ Active(intercepts') = {}
       /\ ModuleWatchStop(0) => ret'.answer = "stoppedAll" /\ Active(watches') = {}]_vars

\* C18 witness: the plugin's stop ran while a store trace whose unsub
\* throws, and an intercept or a module watch, were active.
C18_Witness ==
    /\ ~polling
    /\ ret.tool = "plugin"
    /\ \E id \in 1..Len(traces) : traces[id].unsubThrows
    /\ Len(intercepts) + Len(watches) > 0
    /\ \A id \in 1..Len(intercepts) : intercepts[id].restored = 0
    /\ \A id \in 1..Len(watches) : watches[id].cleaned = 0

\* C19 as stated: when the restore of an intercept's original function
\* fails, the cleanup fails closed: stop does not answer `stopped: true`
\* while the intercept's wrapper is still installed on the export.
C19_CleanupFailsClosed ==
    [][\A id \in 1..Len(intercepts) :
            (id \in Active(intercepts) /\ InterceptStop(id) /\ exportFn' = id) =>
                ret'.answer # "stopped"]_vars

\* C19 witness: the export could not be redefined when intercept 1 was
\* stopped, and its wrapper is still installed.
C19_Witness ==
    /\ frozen
    /\ ret.tool = "intercept" /\ ret.action = "stop" /\ ret.id = 1
    /\ intercepts[1].restored = 1
    /\ exportFn = 1

----------------------------------------------------------------------------
(* The grace window after a reload *)

\* The clock of SpecGrace runs in seconds up to MaxGraceTime.
MaxGraceTime == 8000

GraceTick ==
    /\ now < MaxGraceTime
    /\ now' = now + 1000
    /\ UNCHANGED <<brokerVars, workerVars, cacheVars, resVars>>

\* The server listens; reloads are notified and requests arrive in any
\* order.
InitGrace ==
    /\ now = 0
    /\ server = TRUE
    /\ bound = TRUE
    /\ requestId = 0
    /\ reloadWaitUntil = 0
    /\ requestQueue = <<>>
    /\ pendingRequests = EmptyMap
    /\ timeouts = EmptyMap
    /\ armed = {}
    /\ stats = [requests |-> 0, success |-> 0, errors |-> 0, timeouts |-> 0]
    /\ conn = <<>>
    /\ inflight = {}
    /\ toolCache = <<>>
    /\ running = {}
    /\ nCalls = 0
    /\ out = NoReturn
    /\ probe = BackgroundCall
    /\ sessionStats = NoSession
    /\ ResInit

NextGrace ==
    \/ notifyReloadTriggered
    \/ notifyRendererReady
    \/ HttpArrive
    \/ \E c \in 1..MaxRequests, request \in Requests : HttpAccept(c, request)
    \/ \E c \in 1..MaxRequests : GraceWake(c)
    \/ GraceTick

SpecGrace == InitGrace /\ [][NextGrace]_vars

\* The grace window is open: its deadline lies ahead.
C20_Open == reloadWaitUntil > now

\* C20 as stated: a request that reaches the broker while the window is
\* open sleeps, and is enqueued only when the deadline of the window, as
\* notifyReloadTriggered or notifyRendererReady last set it, has passed; a
\* request that reaches the broker with the window closed is enqueued at
\* once.
C20_GraceWindow ==
    [][\A c \in 1..Len(conn) :
        /\ (\E request \in Requests : HttpAccept(c, request)) =>
                IF C20_Open THEN conn'[c].state = "sleeping" /\ requestQueue' = requestQueue
                ELSE conn'[c].state = "waiting" /\ Len(requestQueue') = Len(requestQueue) + 1
        /\ GraceWake(c) => ~C20_Open]_vars

\* C20 witness: a request reached the broker while the window was open,
\* slept to the deadline it found, and was enqueued then.
C20_Witness ==
    /\ Len(conn) >= 1
    /\ conn[1].state = "waiting"
    /\ conn[1].wakeAt > 0
    /\ conn[1].timerSetAt >= conn[1].wakeAt
    /\ Len(requestQueue) >= 1

----------------------------------------------------------------------------
(* The grace window and the requests that are already with the broker *)

\* The broker with its worker and its timers, and reloads notified in any
\* order with them.  Every request is a tools/list.
WindowRequests == {r \in Requests : r.method = "tools/list"}

NextWindow ==
    \/ notifyReloadTriggered
    \/ notifyRendererReady
    \/ HttpArrive
    \/ \E c \in 1..MaxRequests, request \in WindowRequests : HttpAccept(c, request)
    \/ \E c \in 1..MaxRequests : GraceWake(c)
    \/ \E c \in 1..MaxRequests : TimerFire(c)
    \/ GetNextRequest
    \/ \E item \in inflight : WorkerRespond(item)
    \/ Tick

SpecWindow == InitGrace /\ [][NextWindow]_vars

\* Whatever reloadWaitUntil holds, a queued request can be taken, a due
\* timer can fire and a response can be posted.
C21_NothingHeld ==
    /\ requestQueue # <<>> => ENABLED GetNextRequest
    /\ \A c \in armed : now >= Deadline(c) => ENABLED TimerFire(c)
    /\ \A item \in inflight : ENABLED WorkerRespond(item)

\* The two notifications write reloadWaitUntil and nothing else; a
\* response posted for a pending request resolves it in that step, and a
\* timer that fires resolves its pending request in that step.
C21_Step ==
    /\ (notifyReloadTriggered \/ notifyRendererReady) =>
            UNCHANGED <<requestQueue, pendingRequests, timeouts, armed, conn, inflight, stats>>
    /\ \A item \in inflight :
            (WorkerRespond(item) /\ item.id \in DOMAIN pendingRequests) =>
                /\ conn'[pendingRequests[item.id]].state = "done"
                /\ conn'[pendingRequests[item.id]].reply = handleMCPRequest(item.request)
    /\ \A c \in armed :
            (TimerFire(c) /\ conn[c].id \in DOMAIN pendingRequests) =>
                conn'[c].state = "done" /\ now >= Deadline(c)

\* C21: opening or resetting the grace window changes neither the queue,
\* the pending map nor the timeout map, and the requests already there are
\* taken by getNextRequest and resolved by sendResponse or by their timeout
\* as with no window.
C21_NotRetroactive == []C21_NothingHeld /\ [][C21_Step]_vars

\* C21 witness: a request that was enqueued before the window was opened
\* has been answered by the worker while the window is open.
C21_Witness ==
    /\ Len(conn) >= 1
    /\ conn[1].state = "done"
    /\ conn[1].reply.kind = "result"
    /\ conn[1].wakeAt = 0
    /\ reloadWaitUntil > now
    /\ requestId = 1

----------------------------------------------------------------------------
(* reloadDiscord and the start of the reloaded renderer *)

\* TOOL_HANDLERS.reloadDiscord: the window is opened and the reload is set
\* for 100 ms later.
reloadDiscord ==
    /\ polling
    /\ reloadWaitUntil' = now + RELOAD_WAIT_MS + 1000
    /\ ret' = Answer("reloadDiscord", "", 0, "reloading", {})
    /\ UNCHANGED <<now, server, bound, requestId, requestQueue, pendingRequests, timeouts, armed, stats, conn,
                   inflight, cacheVars, traces, interceptor, dispatcherInterceptors, intercepts, exportFn, frozen, stack, watches, polling>>

\* location.reload(): the renderer and its worker are gone, with the
\* requests the worker had taken and not answered.
LocationReload ==
    /\ polling
    /\ ret = Answer("reloadDiscord", "", 0, "reloading", {})
    /\ polling' = FALSE
    /\ inflight' = {}
    /\ ret' = NoAnswer
    /\ UNCHANGED <<now, brokerVars, cacheVars, traces, interceptor, dispatcherInterceptors, intercepts, exportFn, frozen, stack, watches>>

\* start() of the reloaded renderer: notifyRendererReady, startServer (the
\* session reset; the server is there already) and the first poll.
start ==
    /\ ~polling
    /\ reloadWaitUntil' = IF reloadWaitUntil > 0 THEN now + RELOAD_WAIT_MS ELSE reloadWaitUntil
    /\ clearPendingRequests("Session reset")
    /\ server' = TRUE
    /\ bound' = IF server THEN bound ELSE TRUE
    /\ polling' = TRUE
    /\ ret' = Answer("plugin", "start", 0, "started", {})
    /\ UNCHANGED <<now, requestId, inflight, cacheVars, traces, interceptor, dispatcherInterceptors, intercepts, exportFn, frozen,
                   stack, watches>>

\* The renderer reloads at any time and takes any time to come back.
NextReload ==
    \/ reloadDiscord
    \/ LocationReload
    \/ start
    \/ HttpArrive
    \/ \E c \in 1..MaxRequests : HttpAccept(c, CHOOSE r \in Requests : r.method = "tools/list")
    \/ \E c \in 1..MaxRequests : GraceWake(c)
    \/ polling /\ GetNextRequest
    \/ \E item \in inflight : polling /\ WorkerRespond(item)
    \/ GraceTick

SpecReload == InitGrace /\ [][NextReload]_vars

\* C22 as stated: a request that reaches the broker after reloadDiscord is
\* enqueued only when the reloaded renderer has started (notifyRendererReady
\* and startServer were called), and the session reset of that start does
\* not fail it, however long the reload takes.
C22_NextRequestWaitsForRenderer ==
    [][\A c \in 1..Len(conn) :
        /\ (conn[c].state # "waiting" /\ conn'[c].state = "waiting") => polling
        /\ (start /\ conn[c].state = "waiting" /\ conn[c].wakeAt > 0) => conn'[c].state = "waiting"]_vars

\* C22 witness: a request reached the broker while the renderer was
\* reloading, slept, and is in the queue.
C22_Witness ==
    /\ Len(conn) >= 1
    /\ conn[1].state = "waiting"
    /\ conn[1].wakeAt > 0
    /\ Len(requestQueue) = 1

----------------------------------------------------------------------------
(* Claims about the worker's dispatch and the broker's replies *)

\* The request's handler awaits timers: intl bruteforce yields with
\* sleep(0) while it runs.
C23_Asynchronous(item) ==
    item.request.method = "tools/call" /\ item.request.name = "intl" /\ item.request.action = "bruteforce"

\* C23 as stated: while a request taken by the worker has not been
\* answered, and its handler is an asynchronous one in progress, the worker
\* takes no other request: at most one request is being handled.
C23_OneHandlerAtATime ==
    \A a \in inflight : C23_Asynchronous(a) => inflight = {a}

\* C23 witness: an asynchronous handler is in progress and another request
\* is in the queue.
C23_Witness ==
    /\ \E a \in inflight : C23_Asynchronous(a) /\ inflight = {a}
    /\ requestQueue # <<>>

----------------------------------------------------------------------------
(* The request handler's replies to what is not a JSON-RPC 2.0 request *)

PARSE_ERROR == -32700
INVALID_REQUEST == -32600

\* The bodies of a POST that the handler does not enqueue:
\*   tooLarge      more than MAX_BODY_SIZE bytes: readBody destroys the
\*                 request, and with it the socket, and rejects
\*   unreadable    the request stream emits an error: readBody rejects;
\*                 the socket may or may not still take the reply
\*   malformed     text that JSON.parse rejects
\*   null          the text `null`: JSON.parse returns null
\*   number        the text `5`: JSON.parse returns a value with no members
\*   noJsonrpc     an object with neither jsonrpc nor id
\*   wrongJsonrpc  an object with jsonrpc "1.0" and id 7
Bodies == {"tooLarge", "unreadable", "malformed", "null", "number", "noJsonrpc", "wrongJsonrpc"}

\* The handler from the end of `await readBody(req)` on, for such a body.
\* A connection ends "done" when a reply was written to its socket,
\* "closed" when the reply was written after the socket was destroyed, and
\* "rejected" when the handler threw and nothing was written.
HttpBodyError(c, body) ==
    /\ c \in 1..Len(conn)
    /\ conn[c].state = "reading"
    /\ \A b \in 1..(c - 1) : conn[b].state # "reading"
    /\ IF body = "null"
       THEN /\ conn' = [conn EXCEPT ![c] = [@ EXCEPT !.state = "rejected"]]
            /\ UNCHANGED stats
       ELSE /\ stats' = [stats EXCEPT !.errors = @ + 1]
            /\ \E end \in (CASE body = "tooLarge" -> {"closed"}
                             [] body = "unreadable" -> {"done", "closed"}
                             [] OTHER -> {"done"}) :
                 conn' = [conn EXCEPT ![c] =
                    [@ EXCEPT !.state = end,
                              !.reply = CASE body \in {"tooLarge", "unreadable"} ->
                                                Error(NULL_ID, PARSE_ERROR, "Failed to read body")
                                          [] body = "malformed" ->
                                                Error(NULL_ID, PARSE_ERROR, "Invalid JSON")
                                          [] body \in {"number", "noJsonrpc"} ->
                                                Error(NULL_ID, INVALID_REQUEST, "Must use JSON-RPC 2.0")
                                          [] body = "wrongJsonrpc" ->
                                                Error(7, INVALID_REQUEST, "Must use JSON-RPC 2.0")]]
    /\ UNCHANGED <<now, server, bound, requestId, reloadWaitUntil, requestQueue, pendingRequests, timeouts, armed,
                   inflight, cacheVars, resVars>>

\* HttpOther with sendError's stats.errors++ left out.
HttpOther_ErrorUncounted(verb) ==
    /\ server /\ bound
    /\ Len(conn) < MaxRequests
    /\ stats' = [stats EXCEPT !.requests = @ + 1]
    /\ conn' = Append(conn, [state |-> "done", request |-> CHOOSE r \in Requests : TRUE,
                             id |-> 0, wakeAt |-> 0, timerSetAt |-> 0, resolves |-> 0,
                             reply |-> IF verb = "OPTIONS" THEN NoResponse
                                       ELSE Error(NULL_ID, INVALID_REQUEST, "Only POST method allowed")])
    /\ UNCHANGED <<now, server, bound, requestId, reloadWaitUntil, requestQueue, pendingRequests, timeouts, armed,
                   inflight, cacheVars, resVars>>

\* The handler for a request that is not a POST: it ends before any await.
HttpOther(verb) ==
    /\ server /\ bound
    /\ Len(conn) < MaxRequests
    /\ stats' = [stats EXCEPT !.requests = @ + 1,
                              !.errors = IF verb = "OPTIONS" THEN @ ELSE @ + 1]
    /\ conn' = Append(conn, [state |-> "done", request |-> CHOOSE r \in Requests : TRUE,
                             id |-> 0, wakeAt |-> 0, timerSetAt |-> 0, resolves |-> 0,
                             reply |-> IF verb = "OPTIONS" THEN NoResponse
                                       ELSE Error(NULL_ID, INVALID_REQUEST, "Only POST method allowed")])
    /\ UNCHANGED <<now, server, bound, requestId, reloadWaitUntil, requestQueue, pendingRequests, timeouts, armed,
                   inflight, cacheVars, resVars>>

NextTransport ==
    \/ HttpArrive
    \/ \E c \in 1..MaxRequests, request \in Requests : HttpAccept(c, request)
    \/ \E c \in 1..MaxRequests, body \in Bodies : HttpBodyError(c, body)
    \/ \E verb \in {"OPTIONS", "GET"} : HttpOther(verb)
    \/ GetNextRequest
    \/ \E item \in inflight : WorkerRespond(item)

SpecTransport == InitGrace /\ [][NextTransport]_vars

\* The reply C24 states for a body.
C24_Reply(body) ==
    CASE body \in {"tooLarge", "unreadable", "malformed"} -> [code |-> PARSE_ERROR, id |-> NULL_ID]
      [] body \in {"number", "noJsonrpc"} -> [code |-> INVALID_REQUEST, id |-> NULL_ID]
      [] body = "wrongJsonrpc" -> [code |-> INVALID_REQUEST, id |-> 7]

C25_HandlerNeverRejects ==
    \A c \in 1..Len(conn) : conn[c].state # "rejected"

\* C25 witness: the handler was given a POST whose body is not a request
\* object, and has finished with it, one way or the other.
C25_Witness ==
    /\ Len(conn) >= 1
    /\ conn[1].state \in {"done", "rejected"}
    /\ stats.requests = 1
    /\ \/ conn[1].state = "rejected" /\ stats.errors = 0
       \/ conn[1].reply = Error(NULL_ID, PARSE_ERROR, "Invalid JSON")

----------------------------------------------------------------------------
(* The worker's method routing *)

\* One request per branch of handleMCPRequest's switch that returns without
\* a tool handler, one tools/call that reaches its handler, a notification
\* the switch does not name (posted with an id), and a method it does not
\* know.
RoutingRequests ==
    { [id |-> 1, method |-> "ping", name |-> "", action |-> ""],
      [id |-> 2, method |-> "resources/list", name |-> "", action |-> ""],
      [id |-> 3, method |-> "prompts/list", name |-> "", action |-> ""],
      [id |-> 4, method |-> "tools/list", name |-> "", action |-> ""],
      [id |-> NULL_ID, method |-> "notifications/initialized", name |-> "", action |-> ""],
      [id |-> NULL_ID, method |-> "notifications/cancelled", name |-> "", action |-> ""],
      [id |-> 5, method |-> "notifications/progress", name |-> "", action |-> ""],
      [id |-> 6, method |-> "completion/complete", name |-> "", action |-> ""],
      [id |-> 7, method |-> "tools/call", name |-> "", action |-> ""],
      [id |-> 8, method |-> "tools/call", name |-> "nope", action |-> ""],
      [id |-> 9, method |-> "tools/call", name |-> "store", action |-> "list"] }

\* poll's handleMCPRequest(request).then(response => sendResponse(id,
\* response)) with what handleMCPRequest does to sessionStats.
WorkerRoute(item) ==
    /\ item \in inflight
    /\ inflight' = inflight \ {item}
    /\ sessionStats' = SessionStatsAfter(sessionStats, item.request)
    /\ sendResponse(item.id, handleMCPRequest(item.request))
    /\ UNCHANGED <<now, server, bound, requestId, requestQueue, reloadWaitUntil,
                   toolCache, running, nCalls, out, probe, resVars>>

NextRouting ==
    \/ HttpArrive
    \/ \E c \in 1..MaxRequests, request \in RoutingRequests : HttpAccept(c, request)
    \/ GetNextRequest
    \/ \E item \in inflight : WorkerRoute(item)

SpecRouting == InitGrace /\ [][NextRouting]_vars

\* The methods of RoutingRequests that are notifications/*.
C26_Notifications == {"notifications/initialized", "notifications/cancelled", "notifications/progress"}

\* C26: ping is answered with an empty result, resources/list and
\* prompts/list with empty lists, tools/list with the catalog; every
\* notifications/* method gets no body (null posted, 204 written); another
\* unknown method gets -32601 with the request id; tools/call with a
\* missing or unknown tool name gets -32602; each error case, and no other
\* of these, adds one to sessionStats.errors.
C26_MethodRouting ==
    [][\A item \in inflight : (WorkerRoute(item) /\ item.id \in DOMAIN pendingRequests) =>
        LET r == item.request
            reply == conn'[pendingRequests[item.id]].reply
            answered == conn'[pendingRequests[item.id]].state = "done"
            errs == sessionStats'.errors - sessionStats.errors
        IN /\ answered
           /\ (r.method = "ping") =>
                 reply.kind = "result" /\ reply.result = "{}" /\ reply.id = r.id /\ errs = 0
           /\ (r.method = "resources/list") =>
                 reply.kind = "result" /\ reply.result = "{resources: []}" /\ reply.id = r.id /\ errs = 0
           /\ (r.method = "prompts/list") =>
                 reply.kind = "result" /\ reply.result = "{prompts: []}" /\ reply.id = r.id /\ errs = 0
           /\ (r.method = "tools/list") =>
                 reply.kind = "result" /\ reply.result = "{tools: TOOLS}" /\ reply.id = r.id /\ errs = 0
           /\ (r.method \in C26_Notifications) => reply.kind = "none" /\ errs = 0
           /\ (r.method = "completion/complete") =>
                 reply.kind = "error" /\ reply.code = METHOD_NOT_FOUND /\ reply.id = r.id /\ errs = 1
           /\ (r.method = "tools/call" /\ r.name \in {"", "nope"}) =>
                 reply.kind = "error" /\ reply.code = INVALID_PARAMS /\ reply.id = r.id /\ errs = 1]_vars

\* C26 witness: a notification the switch does not name was answered with
\* no body, and an unknown method with -32601 and its id.
C26_Witness ==
    /\ Len(conn) = 2
    /\ conn[1].state = "done" /\ conn[1].request.method = "notifications/progress"
    /\ conn[1].reply = NoResponse
    /\ conn[2].state = "done" /\ conn[2].reply.kind = "error" /\ conn[2].reply.code = METHOD_NOT_FOUND
    /\ conn[2].reply.id = 6
    /\ sessionStats.errors = 1 /\ sessionStats.requests = 2

----------------------------------------------------------------------------
(* Tool handlers that throw *)

\* What a tool handler does once called: it returns, throws before its
\* first await, returns a promise that rejects, or is still running when
\* withTimeout's timer fires.
Outcomes == {"returns", "throws", "rejects", "timesOut"}

\* The requests of this part: a tools/call under withTimeout, the
\* bruteforce call that runs without it, a method answered without a
\* handler, and a JSON-RPC 2.0 object with no method (method ""), on which
\* the default case's request.method.startsWith throws.
HandlerRequests ==
    { [id |-> 1, method |-> "tools/call", name |-> "store", action |-> "list"],
      [id |-> 2, method |-> "tools/call", name |-> "intl", action |-> "bruteforce"],
      [id |-> 3, method |-> "", name |-> "", action |-> ""],
      [id |-> 4, method |-> "tools/list", name |-> "", action |-> ""] }

\* The rejection of the promise handleMCPRequest returns.
Thrown(message) == [kind |-> "thrown", id |-> NULL_ID, code |-> 0, message |-> message, result |-> ""]

\* The ToolCallResult of executeToolCall, or of handleMCPRequest's catch
\* when withTimeout rejects.
ToolResult(request, outcome) ==
    CASE outcome = "returns" -> "toolResult"
      [] outcome \in {"throws", "rejects"} -> "{isError: true, text: Error: message}"
      [] outcome = "timesOut" ->
            IF request.name = "intl" /\ request.action = "bruteforce"
            THEN "toolResult"
            ELSE "{isError: true, text: Error: timed out}"

\* What the promise of handleMCPRequest(request) settles with.
handleMCPRequestSettled(request, outcome) ==
    IF request.method = "" THEN Thrown("Cannot read properties of undefined")
    ELSE IF request.method = "tools/call" /\ request.name \in TOOL_NAMES
         THEN Result(request.id, ToolResult(request, outcome))
         ELSE handleMCPRequest(request)

\* poll without its .catch: the rejection is passed on.
PollCatch_Propagates(v, request) == v

\* poll's .catch(e => ({jsonrpc, id: request.id, error: {code: -32603, message}}))
PollCatch(v, request) ==
    IF v.kind = "thrown" THEN Error(request.id, INTERNAL_ERROR, v.message) ELSE v

\* sessionStats after handleMCPRequest has settled.
SessionStatsSettled(ss, request, outcome) ==
    IF request.method = "" THEN [ss EXCEPT !.requests = @ + 1]
    ELSE IF request.method = "tools/call" /\ request.name \in TOOL_NAMES
         THEN [requests |-> ss.requests + 1,
               toolCalls |-> ss.toolCalls + 1,
               errors |-> ss.errors
                    + (IF ToolResult(request, outcome) = "{isError: true, text: Error: timed out}" THEN 1 ELSE 0)
                    + (IF ToolResult(request, outcome) # "toolResult" THEN 1 ELSE 0)]
         ELSE SessionStatsAfter(ss, request)

\* The promise chain of poll for a dequeued request, once the handler has
\* had its outcome.
WorkerSettle(item, outcome) ==
    /\ item \in inflight
    /\ inflight' = inflight \ {item}
    /\ sessionStats' = SessionStatsSettled(sessionStats, item.request, outcome)
    /\ sendResponse(item.id, PollCatch(handleMCPRequestSettled(item.request, outcome), item.request))
    /\ UNCHANGED <<now, server, bound, requestId, requestQueue, reloadWaitUntil,
                   toolCache, running, nCalls, out, probe, resVars>>

NextHandlers ==
    \/ HttpArrive
    \/ \E c \in 1..MaxRequests, request \in HandlerRequests : HttpAccept(c, request)
    \/ GetNextRequest
    \/ \E item \in inflight, outcome \in Outcomes : WorkerSettle(item, outcome)

SpecHandlers == InitGrace /\ [][NextHandlers]_vars

\* Every request the broker has enqueued is in the queue, with the worker,
\* or answered once; never two of these.
C27_OneResponseEach ==
    \A c \in 1..Len(conn) :
        LET queued == \E i \in 1..Len(requestQueue) : requestQueue[i].id = conn[c].id
            held == \E item \in inflight : item.id = conn[c].id
        IN /\ (conn[c].state = "waiting") => (queued # held)
           /\ (conn[c].state = "done") => (~queued /\ ~held /\ conn[c].resolves = 1)

\* C27: whatever a tool handler does, throwing included, the tools/call is
\* answered with a result, whose envelope has isError: true and the
\* message when it threw; a rejection of handleMCPRequest itself is
\* answered with error -32603; and the worker, while it runs, posts one
\* response for each request it dequeued.
C27_ThrowBecomesEnvelope ==
    /\ []C27_OneResponseEach
    /\ [][\A item \in inflight, outcome \in Outcomes : WorkerSettle(item, outcome) =>
            LET r == item.request
                reply == conn'[pendingRequests[item.id]].reply
            IN /\ item.id \in DOMAIN pendingRequests
               /\ conn'[pendingRequests[item.id]].resolves = 1
               /\ item \notin inflight'
               /\ (r.method = "tools/call") =>
                     /\ reply.kind = "result"
                     /\ reply.id = r.id
                     /\ (outcome \in {"throws", "rejects"}) =>
                            reply.result = "{isError: true, text: Error: message}"
               /\ (r.method = "") =>
                     reply.kind = "error" /\ reply.code = INTERNAL_ERROR /\ reply.id = r.id]_vars

\* C27 witness: one tools/call whose handler threw was answered with the
\* isError envelope, and a request on which handleMCPRequest rejected with
\* -32603.
C27_Witness ==
    /\ Len(conn) = 2
    /\ conn[1].state = "done"
    /\ conn[1].reply = Result(1, "{isError: true, text: Error: message}")
    /\ conn[2].state = "done"
    /\ conn[2].reply = Error(3, INTERNAL_ERROR, "Cannot read properties of undefined")
    /\ inflight = {}
    /\ sessionStats = [requests |-> 2, toolCalls |-> 1, errors |-> 1]

----------------------------------------------------------------------------
(* The server's socket timeout *)

\* server.timeout: a socket without traffic for this long is destroyed (the
\* server has no 'timeout' listener).
SERVER_TIMEOUT == 35000

\* The clock of SpecSocket runs in steps of SocketStep up to MaxSocketTime.
MaxSocketTime == 40000
SocketStep == 5000

\* The requests of this part: the long-running call and an ordinary one.
SocketRequests ==
    {r \in Requests : r.method = "tools/call"}

\* The socket of connection c has been silent for SERVER_TIMEOUT since its
\* request was read, and the handler still awaits the response.
SocketDue(c) ==
    /\ c \in 1..Len(conn)
    /\ conn[c].state = "waiting"
    /\ now >= conn[c].timerSetAt + SERVER_TIMEOUT

\* Node destroys the socket; the handler and its pending slot are left as
\* they are.
SocketTimeout(c) ==
    /\ SocketDue(c)
    /\ conn' = [conn EXCEPT ![c] = [@ EXCEPT !.state = "severed"]]
    /\ UNCHANGED <<now, server, bound, requestId, reloadWaitUntil, requestQueue, pendingRequests, timeouts, armed,
                   stats, inflight, cacheVars, resVars>>

\* A timer of the broker or of a socket is due: Node runs it before
\* anything later.
TimerDue ==
    \/ \E c \in 1..Len(conn) : SocketDue(c)
    \/ \E c \in armed : now >= Deadline(c)

SocketTick ==
    /\ ~TimerDue
    /\ now < MaxSocketTime
    /\ now' = now + SocketStep
    /\ UNCHANGED <<server, bound, requestId, requestQueue, pendingRequests, timeouts, armed, stats, conn, inflight,
                   reloadWaitUntil, cacheVars, resVars>>

NextSocket ==
    \/ ~TimerDue /\ HttpArrive
    \/ \E c \in 1..MaxRequests, request \in SocketRequests : ~TimerDue /\ HttpAccept(c, request)
    \/ \E c \in 1..MaxRequests : TimerFire(c)
    \/ \E c \in 1..MaxRequests : SocketTimeout(c)
    \/ ~TimerDue /\ GetNextRequest
    \/ \E item \in inflight : ~TimerDue /\ WorkerRespond(item)
    \/ SocketTick

SpecSocket == InitGrace /\ [][NextSocket]_vars

\* The worker posts the response of a bruteforce call more than 30 s and
\* less than 600 s after the broker enqueued it.
C28_LateResponse(item) ==
    /\ WorkerRespond(item)
    /\ item.request.name = "intl" /\ item.request.action = "bruteforce"
    /\ item.id \in DOMAIN pendingRequests
    /\ now - conn[pendingRequests[item.id]].timerSetAt > REQUEST_TIMEOUT
    /\ now - conn[pendingRequests[item.id]].timerSetAt < BRUTEFORCE_TIMEOUT

\* C28 as stated: the broker has not answered Timeout by then, and that
\* response of the worker is delivered to the HTTP client.
C28_LateBruteforceDelivered ==
    [][\A item \in inflight : C28_LateResponse(item) =>
            /\ conn'[pendingRequests[item.id]].state = "done"
            /\ conn'[pendingRequests[item.id]].reply = handleMCPRequest(item.request)]_vars

\* C28 witness: 35 s after its request was read, a bruteforce call is
\* still pending in the broker, with its timer armed, while the worker
\* holds it.
C28_Witness ==
    /\ Len(conn) >= 1
    /\ conn[1].request.name = "intl" /\ conn[1].request.action = "bruteforce"
    /\ conn[1].state \in {"waiting", "severed"}
    /\ now - conn[1].timerSetAt >= SERVER_TIMEOUT
    /\ conn[1].id \in DOMAIN pendingRequests
    /\ 1 \in armed
    /\ \E item \in inflight : item.id = conn[1].id

----------------------------------------------------------------------------
(* Binding the port *)

\* startServer() while another process holds the port: createServer's
\* object is assigned to `server`, listen fails, and the 'error' listener
\* logs "Port 8486 in use".  An existing server object is left as it is.
StartServerPortInUse ==
    /\ clearPendingRequests("Session reset")
    /\ server' = TRUE
    /\ bound' = IF server THEN bound ELSE FALSE
    /\ UNCHANGED <<now, requestId, inflight, reloadWaitUntil, cacheVars, resVars>>

getServerStatus ==
    [running |-> server,
     pendingRequests |-> Cardinality(DOMAIN pendingRequests),
     queuedRequests |-> Len(requestQueue)]

NextBind ==
    \/ StartServer
    \/ StartServerPortInUse
    \/ StopServer
    \/ HttpArrive
    \/ \E c \in 1..MaxRequests, request \in WindowRequests : HttpAccept(c, request)
    \/ GetNextRequest
    \/ \E item \in inflight : WorkerRespond(item)

SpecBind == Init /\ [][NextBind]_vars

\* C29 as stated: after a bind error the server is unstarted:
\* getServerStatus() reports running only while the server listens, and a
\* startServer that finds the port free binds it.
C29_BindErrorLeavesUnstarted ==
    /\ [](getServerStatus.running => bound)
    /\ [][StartServer => bound']_vars

\* C29 witness: a server that had served a request was stopped, and the
\* next startServer found the port in use.
C29_Witness ==
    /\ ~bound
    /\ server
    /\ stats.requests >= 1
    /\ Len(conn) >= 1 /\ conn[1].state = "done" /\ conn[1].reply.kind = "result"

----------------------------------------------------------------------------
(* Timeouts in the broker's stats *)

\* C30 as stated: a request resolved by its timeout adds one to
\* stats.timeouts and nothing to stats.errors; an error response of the
\* worker adds one to stats.errors and nothing to stats.timeouts.
C30_TimeoutsCountedApart ==
    [][/\ \A c \in 1..Len(conn) :
            (TimerFire(c) /\ conn[c].id \in DOMAIN pendingRequests /\ conn[c].state = "waiting") =>
                /\ stats'.timeouts = stats.timeouts + 1
                /\ stats'.errors = stats.errors
       /\ \A item \in inflight :
            (WorkerRespond(item) /\ item.id \in DOMAIN pendingRequests
                /\ handleMCPRequest(item.request).kind = "error") =>
                /\ stats'.errors = stats.errors + 1
                /\ stats'.timeouts = stats.timeouts]_vars

\* C30 witness: one request was answered Timeout and nothing else has
\* been answered.
C30_Witness ==
    /\ Len(conn) >= 1
    /\ conn[1].state = "done"
    /\ conn[1].reply.kind = "error" /\ conn[1].reply.code = INTERNAL_ERROR /\ conn[1].reply.message = "Timeout"
    /\ stats.timeouts = 1
    /\ stats.success = 0
    /\ \A c \in 2..Len(conn) : conn[c].state # "done"

----------------------------------------------------------------------------
(* The worker's timeout around a tool call *)

\* getAdaptiveTimeout(toolName, args)
getAdaptiveTimeout(toolName, action) ==
    IF toolName = "module" /\ action = "loadLazy" THEN 120000
    ELSE IF toolName = "intl" /\ action = "bruteforce" THEN 300000
    ELSE IF toolName \in {"trace", "intercept"} THEN 120000
    ELSE IF toolName \in {"module", "intl"} THEN 60000
    ELSE 5000

\* One tools/call for each value of getAdaptiveTimeout.
AdaptiveRequests ==
    { [id |-> 1, method |-> "tools/call", name |-> "store", action |-> "list"],
      [id |-> 2, method |-> "tools/call", name |-> "intl", action |-> "bruteforce"],
      [id |-> 3, method |-> "tools/call", name |-> "module", action |-> "find"],
      [id |-> 5, method |-> "tools/call", name |-> "module", action |-> "loadLazy"],
      [id |-> 6, method |-> "tools/call", name |-> "trace", action |-> "start"] }

\* isBruteforce of handleMCPRequest: the call runs without withTimeout.
isBruteforce(request) == request.name = "intl" /\ request.action = "bruteforce"

\* The connection whose request the broker enqueued under id.
ConnOf(id) == CHOOSE c \in 1..Len(conn) : conn[c].id = id /\ conn[c].state # "reading"

\* The instant at which withTimeout's timer of a dequeued call runs.  The
\* worker polls every few milliseconds, so at the clock's grain a handler
\* starts at the instant its request was enqueued.
WorkerDeadline(item) ==
    conn[ConnOf(item.id)].timerSetAt + getAdaptiveTimeout(item.request.name, item.request.action)

\* withTimeout's timer runs before the handler has finished: the promise
\* rejects, handleMCPRequest's catch builds the envelope, and poll posts it.
WorkerTimeout(item) ==
    /\ item \in inflight
    /\ ~isBruteforce(item.request)
    /\ now >= WorkerDeadline(item)
    /\ inflight' = inflight \ {item}
    /\ sessionStats' = SessionStatsSettled(sessionStats, item.request, "timesOut")
    /\ sendResponse(item.id, handleMCPRequestSettled(item.request, "timesOut"))
    /\ UNCHANGED <<now, server, bound, requestId, requestQueue, reloadWaitUntil,
                   toolCache, running, nCalls, out, probe, resVars>>

\* A timer of the broker or of the worker is due: Node runs it before
\* anything later.
AdaptiveTimerDue ==
    \/ \E c \in armed : now >= Deadline(c)
    \/ \E item \in inflight : ~isBruteforce(item.request) /\ now >= WorkerDeadline(item)

\* The instants at which a timer of the broker or of the worker comes due.
AdaptiveDeadlines ==
    {Deadline(c) : c \in armed} \cup {WorkerDeadline(item) : item \in {i \in inflight : ~isBruteforce(i.request)}}

\* The clock runs on to the next such instant, once the worker has taken
\* what was queued.
AdaptiveTick ==
    /\ ~AdaptiveTimerDue
    /\ requestQueue = <<>>
    /\ \E d \in AdaptiveDeadlines :
            /\ d > now
            /\ \A e \in AdaptiveDeadlines : e > now => d <= e
            /\ now' = d
    /\ UNCHANGED <<server, bound, requestId, requestQueue, pendingRequests, timeouts, armed, stats, conn,
                   inflight, reloadWaitUntil, cacheVars, resVars>>

NextAdaptive ==
    \/ ~AdaptiveTimerDue /\ HttpArrive
    \/ \E c \in 1..MaxRequests, request \in AdaptiveRequests : ~AdaptiveTimerDue /\ HttpAccept(c, request)
    \/ \E c \in 1..MaxRequests : TimerFire(c)
    \/ ~AdaptiveTimerDue /\ GetNextRequest
    \/ \E item \in inflight : ~AdaptiveTimerDue /\ WorkerRespond(item)
    \/ \E item \in inflight : WorkerTimeout(item)
    \/ AdaptiveTick

SpecAdaptive == InitGrace /\ [][NextAdaptive]_vars

\* C31 as stated: when the worker-side timeout of a tools/call other than
\* intl bruteforce ends the call, the HTTP client receives the isError
\* envelope that reports the timeout; the bruteforce action has no
\* worker-side timeout.
C31_TimeoutEnvelopeDelivered ==
    [][\A item \in inflight :
        /\ WorkerTimeout(item) =>
              /\ conn'[ConnOf(item.id)].state = "done"
              /\ conn'[ConnOf(item.id)].reply =
                        Result(item.request.id, "{isError: true, text: Error: timed out}")
        /\ isBruteforce(item.request) => ~ENABLED WorkerTimeout(item)]_vars

\* C31 witness: the worker-side timeout of a module call has run, 60 s
\* after the call was enqueued.
C31_Witness ==
    /\ Len(conn) >= 1
    /\ conn[1].request.name = "module" /\ conn[1].request.action = "find"
    /\ conn[1].state = "done"
    /\ now >= conn[1].timerSetAt + 60000
    /\ sessionStats.errors >= 1
    /\ inflight = {}

----------------------------------------------------------------------------
(* Resource ids *)

\* The ids of a registry's objects are pairwise distinct, stopped and
\* expired ones included, and grow in the order the objects were made.
C32_DistinctIds(objects) ==
    \A i, j \in 1..Len(objects) : i < j => objects[i].id < objects[j].id

\* C32: per kind the ids start at 1 and only grow: no two resources ever
\* made, active or not, have the same id, and a start gives its resource an
\* id above every id given before.
C32_IdsNeverReused ==
    /\ [](/\ C32_DistinctIds(traces) /\ C32_DistinctIds(intercepts) /\ C32_DistinctIds(watches)
          /\ \A i \in 1..Len(traces) : traces[i].id >= 1
          /\ \A i \in 1..Len(intercepts) : intercepts[i].id >= 1
          /\ \A i \in 1..Len(watches) : watches[i].id >= 1)
    /\ [][/\ Len(traces') > Len(traces) =>
                \A i \in 1..Len(traces) : traces'[Len(traces')].id > traces[i].id
          /\ Len(intercepts') > Len(intercepts) =>
                \A i \in 1..Len(intercepts) : intercepts'[Len(intercepts')].id > intercepts[i].id
          /\ Len(watches') > Len(watches) =>
                \A i \in 1..Len(watches) : watches'[Len(watches')].id > watches[i].id]_vars

\* C32 witness: an intercept was stopped and the next one, set after it,
\* is active.
C32_Witness ==
    /\ Len(intercepts) = 2
    /\ ~intercepts[1].active /\ intercepts[1].restored = 1
    /\ intercepts[2].active
    /\ intercepts[2].id = 2

----------------------------------------------------------------------------
(* The limits a start takes from its arguments *)

MathMin(a, b) == IF a <= b THEN a ELSE b
MathMax(a, b) == IF a >= b THEN a ELSE b

\* args.x ?? d : an argument is a record [given, value].
OrDefault(arg, d) == IF arg.given THEN arg.value ELSE d

\* The arguments a caller may send: none, or a number.
DurationArgs ==
    {[given |-> FALSE, value |-> 0]} \cup
    {[given |-> TRUE, value |-> v] : v \in {-1, 0, 999, 1000, 4999, 5000, 60000, 60001, 120000, 120001}}
MaxCapturesArgs ==
    {[given |-> FALSE, value |-> 0]} \cup
    {[given |-> TRUE, value |-> v] : v \in {-1, 0, 1, 200, 201, 500, 501}}

\* handleTraceTool: duration and maxCaptures
traceDuration(arg) == MathMin(MathMax(OrDefault(arg, 10000), 1000), 60000)
traceMaxCaptures(arg) == MathMin(OrDefault(arg, 100), 500)

\* handleInterceptTool: duration and maxCaptures
interceptDuration(arg) == MathMin(MathMax(OrDefault(arg, 30000), 5000), 120000)
interceptMaxCaptures(arg) == MathMin(OrDefault(arg, 50), 200)

\* handleModuleTool, action watch: duration and maxCaptures
watchDuration(arg) == MathMin(MathMax(OrDefault(arg, 30000), 5000), 120000)
watchMaxCaptures(arg) == MathMin(OrDefault(arg, 100), 500)

\* handleTraceTool, action start, with the caller's duration and maxCaptures.
TraceStartArgs(duration, maxCaptures) ==
    /\ polling
    /\ stack = <<>>
    /\ Started < MaxStarts
    /\ LET s == cleanupExpiredTraces
           id == NextId(traces)
           trace == [id |-> id, isStoreTrace |-> FALSE, maxCaptures |-> traceMaxCaptures(maxCaptures),
                     captures |-> 0, expiresAt |-> now + traceDuration(duration), unsubThrows |-> FALSE,
                     active |-> TRUE, cleaned |-> 0]
       IN /\ ~s.threw
          /\ traces' = Append(s.trs, trace)
          /\ interceptor' = TRUE
          /\ dispatcherInterceptors' = addInterceptor(s, FALSE)
          /\ ret' = Answer("trace", "start", id, "started", {})
    /\ UNCHANGED <<now, intercepts, exportFn, frozen, stack, watches, polling, brokerVars, workerVars, cacheVars>>

\* handleInterceptTool, action set, with the caller's duration and maxCaptures.
InterceptSetArgs(duration, maxCaptures) ==
    /\ polling
    /\ stack = <<>>
    /\ Started < MaxStarts
    /\ ~frozen
    /\ LET s == cleanupExpiredIntercepts
           id == NextId(intercepts)
           intercept == [id |-> id, original |-> s.exp, maxCaptures |-> interceptMaxCaptures(maxCaptures),
                         captures |-> 0, expiresAt |-> now + interceptDuration(duration),
                         active |-> TRUE, restored |-> 0]
       IN /\ intercepts' = Append(s.ints, intercept)
          /\ exportFn' = id
          /\ ret' = Answer("intercept", "set", id, "set", {})
    /\ UNCHANGED <<now, traces, interceptor, dispatcherInterceptors, frozen, stack, watches, polling, brokerVars, workerVars, cacheVars>>

\* handleModuleTool, action watch, with the caller's duration and maxCaptures.
ModuleWatchArgs(duration, maxCaptures) ==
    /\ polling
    /\ stack = <<>>
    /\ Started < MaxStarts
    /\ LET id == NextId(watches)
       IN /\ watches' = Append(watches,
                            [id |-> id, maxCaptures |-> watchMaxCaptures(maxCaptures), newModules |-> 0,
                             expiresAt |-> now + watchDuration(duration), active |-> TRUE, listening |-> TRUE,
                             cleaned |-> 0])
          /\ ret' = Answer("module", "watch", id, "started", {})
    /\ UNCHANGED <<now, traces, interceptor, dispatcherInterceptors, intercepts, exportFn, frozen, stack, polling,
                   brokerVars, workerVars, cacheVars>>

NextLimits ==
    \/ \E duration \in DurationArgs, maxCaptures \in MaxCapturesArgs : TraceStartArgs(duration, maxCaptures)
    \/ \E duration \in DurationArgs, maxCaptures \in MaxCapturesArgs : InterceptSetArgs(duration, maxCaptures)
    \/ \E duration \in DurationArgs, maxCaptures \in MaxCapturesArgs : ModuleWatchArgs(duration, maxCaptures)

SpecLimits == InitResources /\ [][NextLimits]_vars

\* C33 as stated: whatever numbers the caller sends, zero and negative
\* ones included, a trace lasts 1000..60000 ms (10000 by default) and holds
\* at most 1..500 captures, an intercept lasts 5000..120000 ms (30000 by
\* default) and holds at most 1..200 captures, and a module watch lasts
\* 5000..120000 ms (30000 by default).
C33_LimitsClamped ==
    [][\A duration \in DurationArgs, maxCaptures \in MaxCapturesArgs :
        /\ TraceStartArgs(duration, maxCaptures) =>
              LET t == traces'[Len(traces')]
              IN /\ t.expiresAt - now \in 1000..60000
                 /\ ~duration.given => t.expiresAt - now = 10000
                 /\ t.maxCaptures \in 1..500
        /\ InterceptSetArgs(duration, maxCaptures) =>
              LET i == intercepts'[Len(intercepts')]
              IN /\ i.expiresAt - now \in 5000..120000
                 /\ ~duration.given => i.expiresAt - now = 30000
                 /\ i.maxCaptures \in 1..200
        /\ ModuleWatchArgs(duration, maxCaptures) =>
              LET w == watches'[Len(watches')]
              IN /\ w.expiresAt - now \in 5000..120000
                 /\ ~duration.given => w.expiresAt - now = 30000]_vars

\* C33 witness: a trace started with duration 0 and maxCaptures 501 lasts
\* 1000 ms and holds at most 500 captures.
C33_Witness ==
    /\ Len(traces) >= 1
    /\ traces[1].expiresAt = 1000
    /\ traces[1].maxCaptures = 500

----------------------------------------------------------------------------
(* Captures and expiry *)

\* C34 as stated: no trace, intercept or module watch records a capture at
\* or after its expiresAt, swept or not.
C34_NoCaptureAfterExpiry ==
    [][/\ \A id \in 1..Len(traces) :
            traces'[id].captures > traces[id].captures => now < traces[id].expiresAt
       /\ \A id \in 1..Len(intercepts) :
            intercepts'[id].captures > intercepts[id].captures => now < intercepts[id].expiresAt
       /\ \A id \in 1..Len(watches) :
            watches'[id].newModules > watches[id].newModules => now < watches[id].expiresAt]_vars

\* C34 witness: a flux trace with room for a capture has expired, is still
\* in the registry with the interceptor installed, and has recorded nothing.
C34_Witness ==
    \E id \in 1..Len(traces) :
        /\ traces[id].active /\ ~traces[id].isStoreTrace
        /\ interceptor
        /\ now >= traces[id].expiresAt
        /\ traces[id].maxCaptures >= 1
        /\ traces[id].captures = 0

----------------------------------------------------------------------------
(* Timeouts and the queue *)

\* The request of connection c was answered Timeout.
C35_TimedOut(c) ==
    conn[c].state = "done" /\ conn[c].reply = Error(conn[c].request.id, INTERNAL_ERROR, "Timeout")

\* C35: a timeout that fires while its request is still queued leaves the
\* queue as it is; getNextRequest can always take what is queued and hands
\* a request to the worker whether or not it is still pending, and the
\* worker's response for a request that has timed out changes nothing in
\* the broker.
C35_TimeoutLeavesQueued ==
    /\ [](requestQueue # <<>> => ENABLED GetNextRequest)
    /\ [][/\ \A c \in 1..Len(conn) : TimerFire(c) => requestQueue' = requestQueue
          /\ GetNextRequest =>
                \E i \in 1..Len(requestQueue) :
                    /\ requestQueue' = Splice(requestQueue, i)
                    /\ inflight' = inflight \cup {[id |-> requestQueue[i].id, request |-> requestQueue[i].request]}
          /\ \A item \in inflight :
                (WorkerRespond(item) /\ item.id \notin DOMAIN pendingRequests) =>
                    (inflight' = inflight \ {item} /\ UNCHANGED brokerVars)]_vars

\* C35 witness: the worker holds a request that had timed out while it was
\* queued: nothing else was ever enqueued, and the clock stands at the
\* instant of the timeout, so the request was taken after its client got
\* the Timeout error; a second one has timed out and is still queued.
C35_Witness ==
    /\ Len(conn) = 2
    /\ C35_TimedOut(1) /\ C35_TimedOut(2)
    /\ \E item \in inflight : item.id = conn[1].id
    /\ conn[2].id \in QueueIds
    /\ ~(QueueIds \subseteq DOMAIN pendingRequests)

----------------------------------------------------------------------------
(* Stacked intercepts *)

\* Several intercepts were set on the export, each was installed and each
\* was restored, and the registry is empty; the export was never frozen.
C36_AllStopped ==
    /\ Len(intercepts) >= 2
    /\ Active(intercepts) = {}
    /\ \A id \in 1..Len(intercepts) : intercepts[id].restored = 1
    /\ ~frozen

\* C36: when several intercepts were set on the same export and all of them
\* have been stopped, in whatever order, the export holds the function
\* itself: no wrapper remains installed once the registry is empty.
C36_StackedStopsRestoreOriginal == C36_AllStopped => exportFn = 0

\* C36 witness: intercept 2 wrapped the wrapper of intercept 1, both were
\* stopped with every restore succeeding, the registry is empty and the
\* export holds the wrapper of intercept 1.
C36_Witness ==
    /\ C36_AllStopped
    /\ intercepts[2].original = 1
    /\ exportFn = 1

----------------------------------------------------------------------------
(* The pending map and the timeout map *)

\* C37: in every reachable state the pending-response map and the timeout
\* map hold exactly the same broker ids, and an id stands for the same
\* request in both.
C37_PendingAndTimeoutsAgree ==
    /\ DOMAIN pendingRequests = DOMAIN timeouts
    /\ \A id \in DOMAIN pendingRequests : pendingRequests[id] = timeouts[id]

\* C37 witness: two requests were enqueued, the worker answered the first
\* and the second is the only id left, in both maps.
C37_Witness ==
    /\ Len(conn) = 2
    /\ conn[1].state = "done"
    /\ conn[1].reply.kind = "result"
    /\ conn[2].state = "waiting"
    /\ DOMAIN pendingRequests = {conn[2].id}
    /\ DOMAIN timeouts = {conn[2].id}

----------------------------------------------------------------------------
(* Broker ids at the 31-bit boundary *)

\* The broker after 2^31 - 2 requests, all of them answered: the server was
\* stopped since, and the id counter, which nothing resets, stands one
\* below the mask.
InitWrap ==
    /\ now = 0
    /\ server = FALSE
    /\ bound = FALSE
    /\ requestId = ID_MASK - 1
    /\ reloadWaitUntil = 0
    /\ requestQueue = <<>>
    /\ pendingRequests = EmptyMap
    /\ timeouts = EmptyMap
    /\ armed = {}
    /\ stats = [requests |-> 0, success |-> 0, errors |-> 0, timeouts |-> 0]
    /\ conn = <<>>
    /\ inflight = {}
    /\ ResInit
    /\ toolCache = <<>>
    /\ running = {}
    /\ nCalls = 0
    /\ out = NoReturn
    /\ probe = [tool |-> "store", args |-> <<>>]
    /\ sessionStats = NoSession

SpecWrap == InitWrap /\ [][Next]_vars

\* The connections whose request has a broker id and no response yet.
C38_InFlight == {c \in 1..Len(conn) : conn[c].state = "waiting"}

\* Ids lie in 0..2^31-1, the requests in flight have pairwise distinct ids,
\* and the pending slot of an id belongs to the request that was given it.
C38_IdsInRangeAndDistinct ==
    /\ requestId \in 0..ID_MASK
    /\ \A c \in C38_InFlight : conn[c].id \in 0..ID_MASK
    /\ \A c, d \in C38_InFlight : c # d => conn[c].id # conn[d].id
    /\ \A c \in C38_InFlight : conn[c].id \in DOMAIN pendingRequests /\ pendingRequests[conn[c].id] = c

\* A new id is the previous one plus 1, and 0 after 2^31-1; a response
\* posted for an id changes no request but the one that was given the id.
C38_Step ==
    /\ requestId' # requestId =>
            /\ requestId' = IF requestId = ID_MASK THEN 0 ELSE requestId + 1
            /\ \E c \in 1..Len(conn) : conn[c].state # "waiting" /\ conn'[c].state = "waiting" /\ conn'[c].id = requestId'
    /\ \A item \in inflight : WorkerRespond(item) =>
            \A c \in 1..Len(conn) : conn'[c] # conn[c] => (c \in C38_InFlight /\ conn[c].id = item.id)

\* C38: broker ids are the previous id plus 1 masked to 31 bits, so they lie
\* in 0..2^31-1 and wrap to 0 after 2^31-1; requests in flight at the same
\* time have pairwise distinct ids, and a response posted for id X resolves
\* only the request that was assigned X.
C38_MaskedIds == []C38_IdsInRangeAndDistinct /\ [][C38_Step]_vars

\* C38 witness: the id 2^31-1 was assigned, the next request got the id 0,
\* both were in flight together, and the worker's response for the id 0
\* resolved the second request while the first is still pending.
C38_Witness ==
    /\ Len(conn) = 2
    /\ conn[1].id = ID_MASK /\ conn[1].state = "waiting"
    /\ conn[2].id = 0 /\ conn[2].state = "done" /\ conn[2].reply.kind = "result"
    /\ requestId = 0
    /\ DOMAIN pendingRequests = {ID_MASK}

----------------------------------------------------------------------------
(* The session error counter *)

\* C39: every handled request, a tools/call cut off by the worker's timeout
\* included, adds at most one to the session's error counter, so the
\* counter never exceeds the number of requests handled.
C39_ErrorsAtMostRequests == sessionStats.errors <= sessionStats.requests

\* C39 witness: one request was handled, a store call that the worker's
\* 5000 ms timeout cut off; its client got the isError envelope and the
\* error counter stands at 2.
C39_Witness ==
    /\ sessionStats.requests = 1
    /\ sessionStats.errors = 2
    /\ \E c \in 1..Len(conn) :
        /\ conn[c].state = "done"
        /\ conn[c].request.name = "store"
        /\ conn[c].reply = Result(conn[c].request.id, "{isError: true, text: Error: timed out}")

----------------------------------------------------------------------------
(* The shared flux interceptor *)

\* The traces of the registry that are not store traces.
C40_FluxTraces == {id \in Active(traces) : ~traces[id].isStoreTrace}

\* C40: the shared flux interceptor is in the dispatcher at most once, and
\* exactly when traceState holds it; while a flux (non-store) trace is in
\* the registry it is registered, and while the registry is empty it is out
\* of the dispatcher and traceState.interceptor is null.
C40_InterceptorRegisteredOnce ==
    /\ dispatcherInterceptors \in {0, 1}
    /\ interceptor <=> dispatcherInterceptors = 1
    /\ C40_FluxTraces # {} => dispatcherInterceptors = 1
    /\ Active(traces) = {} => (dispatcherInterceptors = 0 /\ ~interceptor)

\* C40 witness: two flux traces are in the registry together, the second
\* started while the interceptor of the first was installed, and the
\* dispatcher holds the interceptor once.
C40_Witness ==
    /\ Len(traces) = 2
    /\ C40_FluxTraces = {1, 2}
    /\ interceptor
    /\ dispatcherInterceptors = 1

====
